---- MODULE Spec2Model ----
(***************************************************************************)
(* Model of the LLM API aggregator (Ujwal6702/LLM-API).                    *)
(*                                                                         *)
(* Part 1: the multi-dimensional sliding-window rate limiter               *)
(* (app/utils/rate_limiter.py, EnhancedRateLimiter) and the provider       *)
(* clients' availability check that drives it                              *)
(* (app/services/provider_clients.py).                                     *)
(*                                                                         *)
(* Time.  time.time() is a float number of seconds.  The model's clock     *)
(* `now` counts ticks of 1/TicksPerSecond second, so that every value the  *)
(* code computes in seconds is an integer number of ticks and the int()    *)
(* conversions of the code (truncation to whole seconds) are computed, not *)
(* assumed away.                                                           *)
(***************************************************************************)
EXTENDS Integers, Sequences, FiniteSets, TLC

VARIABLES
    now,              \* time.time(), in ticks
    advances,         \* number of clock advances so far (bounds the run)
    rate_limit,       \* the RateLimit configuration of the keys
    api_key,          \* BaseProviderClient.api_key per provider ("" = unset)
    request_windows,  \* EnhancedRateLimiter.request_windows[key][minute|hour]
    token_windows,    \* EnhancedRateLimiter.token_windows[key][minute|hour]
    daily_counters,   \* EnhancedRateLimiter.daily_counters[key][requests|tokens]
    monthly_counters, \* EnhancedRateLimiter.monthly_counters[key][requests|tokens]
    last_reset,       \* EnhancedRateLimiter.last_reset[key][daily|monthly]
    result,           \* what the last completed call returned
    admitted,         \* history: timestamps of the admits allowed since the key's last reset
    lock,             \* EnhancedRateLimiter._lock: the task holding it, or NoTask
    pc,               \* position of each concurrent task
    task,             \* locals of each concurrent task
    tenacity,         \* provider_clients.TENACITY_AVAILABLE
    client_stats,     \* BaseProviderClient statistics per provider
    provider_stats,   \* SmartLoadBalancer.provider_stats per provider
    current_loads,    \* SmartLoadBalancer.current_loads per provider
    failed_providers, \* LoadBalancerManager.failed_providers (None = no entry)
    route,            \* locals of each route_request call
    running,          \* the call the event loop is running, or NoTask
    last_failure,     \* history: when the last dispatch to the provider failed,
                      \* no call to it having succeeded since (None = never)
    strategy,         \* RateLimiterManager.strategy
    memory_buckets,   \* TokenBucketRateLimiter.memory_buckets[key]
    windows,          \* FixedWindowRateLimiter.windows[key]
    buckets,          \* LeakyBucketRateLimiter.buckets[key]
    streak,           \* history: the calls checked since the key was fresh
    weights,          \* WeightedRoundRobinBalancer.weights (None = no entry)
    current_weights,  \* WeightedRoundRobinBalancer.current_weights
    selections,       \* history: how often select_provider returned the provider
    passed_over,      \* history: the selections in a row that passed the provider over
    pending,          \* the provider selected whose call has not completed
    profile,          \* environment: how long each provider's calls take
    last_selection_time, \* SmartLoadBalancer.last_selection_time (0 = no entry)
    current_index,    \* RoundRobinBalancer.current_index
    response_times,   \* ResponseTimeBalancer.response_times
    last_available    \* history: the list the last selection got, and how often in a row

limiterVars == <<request_windows, token_windows, daily_counters,
                 monthly_counters, last_reset>>
taskVars == <<lock, pc, task>>
routerVars == <<tenacity, client_stats, provider_stats, current_loads,
                failed_providers, route, running, last_failure,
                last_selection_time>>
strategyVars == <<strategy, memory_buckets, windows, buckets, streak>>
otherBalancers == <<current_index, response_times, last_available>>
wrrVars == <<weights, current_weights, selections, passed_over, pending,
             profile, otherBalancers>>
extVars == <<routerVars, strategyVars, wrrVars>>
vars == <<now, advances, rate_limit, api_key, request_windows, token_windows,
          daily_counters, monthly_counters, last_reset, result, admitted,
          lock, pc, task, tenacity, client_stats, provider_stats,
          current_loads, failed_providers, route, running, last_failure,
          strategy, memory_buckets, windows, buckets, streak,
          weights, current_weights, selections, passed_over, pending, profile,
          last_selection_time, current_index, response_times,
          last_available>>

-----------------------------------------------------------------------------
(* Bounds of the model *)

TicksPerSecond == 2
MaxAdvances == 2
MaxAdmits == 3
MaxTokenRecords == 1

(* Program constants, in seconds *)
MinuteWindow == 60
HourWindow == 3600
SecondsPerDay == 86400

Providers == <<"p1", "p2", "p3">>
ProviderSet == {Providers[i] : i \in 1..Len(Providers)}
KeyOf(p, model) == <<p, model>>
Keys == {KeyOf(p, "default") : p \in ProviderSet}
\* config["models"] of every provider; models[0] serves a request that names
\* no model of the provider
Models == <<"m1">>
ModelKeys == {KeyOf(p, Models[i]) : p \in ProviderSet, i \in 1..Len(Models)}
AllKeys == Keys \cup ModelKeys

NoTask == "none"
Tasks == {"t1", "t2"}
RouteTasks == {"r1", "r2"}

None == 0 - 1

-----------------------------------------------------------------------------
(* Clock and calendar *)

Ticks(seconds) == seconds * TicksPerSecond

\* a conversion to whole seconds that rounds up
int_rounding_up(x) == (x + TicksPerSecond - 1) \div TicksPerSecond

\* int(x) of Python for a duration x given in ticks: truncation toward zero
\* to whole seconds.
int(x) == IF x >= 0 THEN x \div TicksPerSecond ELSE 0 - ((0 - x) \div TicksPerSecond)

\* int(now // 86400)
DayIndex(t) == t \div Ticks(SecondsPerDay)

\* time.gmtime(): year and month of a day index (days since 1970-01-01),
\* proleptic Gregorian calendar.
gmtime(t) ==
    LET z == DayIndex(t) + 719468
        era == z \div 146097
        doe == z - era * 146097
        yoe == (doe - doe \div 1460 + doe \div 36524 - doe \div 146096) \div 365
        doy == doe - (365 * yoe + yoe \div 4 - yoe \div 100)
        mp == (5 * doy + 2) \div 153
        m == IF mp < 10 THEN mp + 3 ELSE mp - 9
        y == yoe + era * 400 + (IF m <= 2 THEN 1 ELSE 0)
    IN [tm_year |-> y, tm_mon |-> m]

\* tm_year * 12 + tm_mon
MonthIndex(t) == gmtime(t).tm_year * 12 + gmtime(t).tm_mon

\* time.mktime((year, mon, 1, 0, 0, 0, 0, 0, 0)) in ticks; mon = 13 is
\* normalised to January of the next year.  The process runs in UTC.
mktime(year, mon) ==
    LET yy == IF mon > 12 THEN year + 1 ELSE year
        mm == IF mon > 12 THEN mon - 12 ELSE mon
        y == IF mm <= 2 THEN yy - 1 ELSE yy
        era == y \div 400
        yoe == y - era * 400
        doy == (153 * (IF mm > 2 THEN mm - 3 ELSE mm + 9) + 2) \div 5
        doe == yoe * 365 + yoe \div 4 - yoe \div 100 + doy
    IN Ticks((era * 146097 + doe - 719468) * SecondsPerDay)

-----------------------------------------------------------------------------
(* RateLimit configurations.  An unconfigured dimension is None. *)

RateLimit(rpm, rph, rpd, rpmth, tpm, tph, tpd, tpmth) ==
    [requests_per_minute |-> rpm, requests_per_hour |-> rph,
     requests_per_day |-> rpd, requests_per_month |-> rpmth,
     tokens_per_minute |-> tpm, tokens_per_hour |-> tph,
     tokens_per_day |-> tpd, tokens_per_month |-> tpmth]

\* `if limit.requests_per_hour:` -- None and 0 are both falsy
Configured(v) == v # None /\ v # 0

RateLimits ==
    { RateLimit(2, None, None, None, None, None, None, None),
      RateLimit(2, 2, 2, 2, 3, 3, 3, 3) }

TokenAmounts == {3, 4}

\* the instants a run starts at: one tick before the end of 1970-01-02 (the
\* next day is in the same month) and of 1970-01-31 (the next day is in
\* February)
StartTimes == { Ticks(2 * SecondsPerDay) - 1, Ticks(31 * SecondsPerDay) - 1 }

\* the amounts the clock advances by: one tick, a minute, an hour
Advances == { 1, Ticks(MinuteWindow), Ticks(HourWindow) }

ApiKeys == { [p \in ProviderSet |-> IF p = Providers[1] THEN "sk" ELSE ""] }

-----------------------------------------------------------------------------
(* EnhancedRateLimiter: the usage state of one key and the pure part of    *)
(* each method.  A key that is absent from a defaultdict reads as empty    *)
(* queues, zero counters and last_reset 0.                                 *)

Entry(t, tokens) == [timestamp |-> t, tokens |-> tokens]

EmptyWindows == [minute |-> <<>>, hour |-> <<>>]
ZeroCounters == [requests |-> 0, tokens |-> 0]
NoReset == [daily |-> 0, monthly |-> 0]

UsageState(k) ==
    [rw |-> request_windows[k], tw |-> token_windows[k],
     dc |-> daily_counters[k], mc |-> monthly_counters[k],
     lr |-> last_reset[k]]

FreshUsageState ==
    [rw |-> EmptyWindows, tw |-> EmptyWindows,
     dc |-> ZeroCounters, mc |-> ZeroCounters, lr |-> NoReset]

\* while window and window[0]["timestamp"] < cutoff: window.popleft()
RECURSIVE PopExpired(_, _)
PopExpired(window, cutoff) ==
    IF window # <<>> /\ Head(window).timestamp < cutoff
    THEN PopExpired(Tail(window), cutoff)
    ELSE window

\* sum(entry["tokens"] for entry in window)
RECURSIVE SumTokens(_)
SumTokens(window) ==
    IF window = <<>> THEN 0 ELSE Head(window).tokens + SumTokens(Tail(window))

\* a calendar check that resets both accumulators whenever the day changed
_update_periodic_counters_together(s, t) ==
    LET current_day == DayIndex(t)
        current_month == MonthIndex(t)
        dayChanged == s.lr.daily # current_day
    IN [s EXCEPT
          !.dc = IF dayChanged THEN ZeroCounters ELSE @,
          !.mc = IF dayChanged THEN ZeroCounters ELSE @,
          !.lr = [daily |-> current_day, monthly |-> current_month]]

_update_periodic_counters(s, t) ==
    LET current_day == DayIndex(t)
        current_month == MonthIndex(t)
        dayChanged == s.lr.daily # current_day
        monthChanged == s.lr.monthly # current_month
    IN [s EXCEPT
          !.dc = IF dayChanged THEN ZeroCounters ELSE @,
          !.mc = IF monthChanged THEN ZeroCounters ELSE @,
          !.lr = [daily |-> current_day, monthly |-> current_month]]

\* The (allowed, info) pair a check returns, as one record.
Denied(current, limit, reset_time, retry_after) ==
    [allowed |-> FALSE, current_count |-> current, limit |-> limit,
     reset_time |-> reset_time, retry_after |-> retry_after]

Passed(current, limit) ==
    [allowed |-> TRUE, current_count |-> current, limit |-> limit,
     remaining |-> limit - current]

DeniedTokens(current, limit, reset_time, retry_after) ==
    [allowed |-> FALSE, current_tokens |-> current, limit |-> limit,
     reset_time |-> reset_time, retry_after |-> retry_after]

PassedTokens(current, limit) ==
    [allowed |-> TRUE, current_tokens |-> current, limit |-> limit,
     remaining |-> limit - current]

\* a check that lets go of the oldest entry when it denies
CheckRequestWindowDropping(queue, limit, t, seconds, empty_retry) ==
    LET cutoff == t - Ticks(seconds)
        window == PopExpired(queue, cutoff)
        current_count == Len(window)
    IN IF current_count >= limit
       THEN [window |-> IF window # <<>> THEN Tail(window) ELSE window,
             info |-> Denied(current_count, limit, cutoff + Ticks(seconds),
                             IF window # <<>>
                             THEN int(Head(window).timestamp + Ticks(seconds) - t)
                             ELSE empty_retry)]
       ELSE [window |-> window, info |-> Passed(current_count, limit)]

\* The sliding-window check of a request queue: the pruned queue and the
\* verdict.  `empty_retry` is the retry_after reported for an empty queue.
CheckRequestWindow(queue, limit, t, seconds, empty_retry) ==
    LET cutoff == t - Ticks(seconds)
        window == PopExpired(queue, cutoff)
        current_count == Len(window)
    IN [window |-> window,
        info |-> IF current_count >= limit
                 THEN Denied(current_count, limit, cutoff + Ticks(seconds),
                             IF window # <<>>
                             THEN int(Head(window).timestamp + Ticks(seconds) - t)
                             ELSE empty_retry)
                 ELSE Passed(current_count, limit)]

\* a minute check that admits one request more than the limit
_check_requests_per_minute_lenient(s, limit, t) ==
    CheckRequestWindow(s.rw.minute, limit.requests_per_minute + 1, t, MinuteWindow, 1)

_check_requests_per_minute(s, limit, t) ==
    CheckRequestWindow(s.rw.minute, limit.requests_per_minute, t, MinuteWindow, 1)

_check_requests_per_hour(s, limit, t) ==
    CheckRequestWindow(s.rw.hour, limit.requests_per_hour, t, HourWindow, 60)

NextDay(t) == Ticks((DayIndex(t) + 1) * SecondsPerDay)
NextMonth(t) == mktime(gmtime(t).tm_year, gmtime(t).tm_mon + 1)

_check_requests_per_day(s, limit, t) ==
    LET current_count == s.dc.requests
    IN IF current_count >= limit.requests_per_day
       THEN Denied(current_count, limit.requests_per_day, NextDay(t),
                   int(NextDay(t) - t))
       ELSE Passed(current_count, limit.requests_per_day)

_check_requests_per_month(s, limit, t) ==
    LET current_count == s.mc.requests
    IN IF current_count >= limit.requests_per_month
       THEN Denied(current_count, limit.requests_per_month, NextMonth(t),
                   int(NextMonth(t) - t))
       ELSE Passed(current_count, limit.requests_per_month)

\* The sliding-window check of a token queue (tokens_used = 0 in every call
\* the code makes).
CheckTokenWindow(queue, limit, t, seconds, empty_retry, tokens_used) ==
    LET cutoff == t - Ticks(seconds)
        window == PopExpired(queue, cutoff)
        current_tokens == SumTokens(window)
    IN [window |-> window,
        info |-> IF current_tokens + tokens_used > limit
                 THEN DeniedTokens(current_tokens, limit, cutoff + Ticks(seconds),
                             IF window # <<>>
                             THEN int(Head(window).timestamp + Ticks(seconds) - t)
                             ELSE empty_retry)
                 ELSE PassedTokens(current_tokens, limit)]

_check_tokens_per_minute(s, limit, t) ==
    CheckTokenWindow(s.tw.minute, limit.tokens_per_minute, t, MinuteWindow, 1, 0)

_check_tokens_per_hour(s, limit, t) ==
    CheckTokenWindow(s.tw.hour, limit.tokens_per_hour, t, HourWindow, 60, 0)

_check_tokens_per_day(s, limit, t) ==
    LET current_tokens == s.dc.tokens
    IN IF current_tokens + 0 > limit.tokens_per_day
       THEN DeniedTokens(current_tokens, limit.tokens_per_day, NextDay(t),
                   int(NextDay(t) - t))
       ELSE PassedTokens(current_tokens, limit.tokens_per_day)

_check_tokens_per_month(s, limit, t) ==
    LET current_tokens == s.mc.tokens
    IN IF current_tokens + 0 > limit.tokens_per_month
       THEN DeniedTokens(current_tokens, limit.tokens_per_month, NextMonth(t),
                   int(NextMonth(t) - t))
       ELSE PassedTokens(current_tokens, limit.tokens_per_month)

\* a recording that forgets the month accumulator
_record_usage_day_only(s, limit, t, tokens_used) ==
    LET request_entry == Entry(t, tokens_used)
    IN [s EXCEPT
          !.rw = [minute |-> Append(@.minute, request_entry),
                  hour |-> Append(@.hour, request_entry)],
          !.dc = [requests |-> @.requests + 1, tokens |-> @.tokens + tokens_used]]

_record_usage(s, limit, t, tokens_used) ==
    LET request_entry == Entry(t, tokens_used)
        token_entry == Entry(t, tokens_used)
    IN [s EXCEPT
          !.rw = [minute |-> Append(@.minute, request_entry),
                  hour |-> Append(@.hour, request_entry)],
          !.tw = IF tokens_used > 0
                 THEN [minute |-> Append(@.minute, token_entry),
                       hour |-> Append(@.hour, token_entry)]
                 ELSE @,
          !.dc = [requests |-> @.requests + 1, tokens |-> @.tokens + tokens_used],
          !.mc = [requests |-> @.requests + 1, tokens |-> @.tokens + tokens_used]]

Check(name, info) == [name |-> name, info |-> info]
When(cond, check) == IF cond THEN <<check>> ELSE <<>>

\* the last failed check instead of the first
LastFailed(checks) ==
    LET failed == SelectSeq(checks, LAMBDA c : ~c.info.allowed)
    IN failed[Len(failed)]

\* next(info for name, allowed, info in checks if not allowed)
FirstFailed(checks) ==
    LET failed == SelectSeq(checks, LAMBDA c : ~c.info.allowed)
    IN Head(failed)

\* the checks of the configured dimensions, in their order, on the usage
\* state s0 that the calendar check left, and the usage state they leave
CheckAll(s0, limit, t) ==
    LET rpm == _check_requests_per_minute(s0, limit, t)
        rph == _check_requests_per_hour(s0, limit, t)
        tpm == _check_tokens_per_minute(s0, limit, t)
        tph == _check_tokens_per_hour(s0, limit, t)
    IN [checks |->
            <<Check("requests_per_minute", rpm.info)>>
            \o When(Configured(limit.requests_per_hour),
                    Check("requests_per_hour", rph.info))
            \o When(Configured(limit.requests_per_day),
                    Check("requests_per_day", _check_requests_per_day(s0, limit, t)))
            \o When(Configured(limit.requests_per_month),
                    Check("requests_per_month", _check_requests_per_month(s0, limit, t)))
            \o When(Configured(limit.tokens_per_minute),
                    Check("tokens_per_minute", tpm.info))
            \o When(Configured(limit.tokens_per_hour),
                    Check("tokens_per_hour", tph.info))
            \o When(Configured(limit.tokens_per_day),
                    Check("tokens_per_day", _check_tokens_per_day(s0, limit, t)))
            \o When(Configured(limit.tokens_per_month),
                    Check("tokens_per_month", _check_tokens_per_month(s0, limit, t))),
        \* the checks that ran have pruned their queues in place
        state |->
            [s0 EXCEPT
               !.rw = [minute |-> rpm.window,
                       hour |-> IF Configured(limit.requests_per_hour)
                                THEN rph.window ELSE @.hour],
               !.tw = [minute |-> IF Configured(limit.tokens_per_minute)
                                  THEN tpm.window ELSE @.minute,
                       hour |-> IF Configured(limit.tokens_per_hour)
                                THEN tph.window ELSE @.hour]]]

\* failed_checks = [name for name, allowed, _ in checks if not allowed]
FailedChecks(checks) ==
    LET failed == SelectSeq(checks, LAMBDA c : ~c.info.allowed)
    IN [i \in 1..Len(failed) |-> failed[i].name]

WithFailedChecks(c) ==
    [checks |-> c.checks, failed_checks |-> FailedChecks(c.checks), state |-> c.state]

\* is_allowed up to `failed_checks`: the calendar check, the checks and the
\* names of the failed ones
run_checks(s, limit, t) ==
    WithFailedChecks(CheckAll(_update_periodic_counters(s, t), limit, t))

\* f"Rate limit exceeded: {failed_checks[0]}"
Reason(name) == "Rate limit exceeded: " \o name

\* the dict of a denial: {"allowed": False, "failed_checks": ..., "reason":
\* ..., **failed_info}
DenialOf(c) ==
    [allowed |-> FALSE, failed_checks |-> c.failed_checks,
     reason |-> Reason(c.failed_checks[1])] @@ FirstFailed(c.checks).info

AllowanceOf(c) == [allowed |-> TRUE, rate_limit_status |-> c.checks]

\* is_allowed after the checks c: a denial returns, else the usage is
\* recorded
ReturnOrRecord(c, limit, t) ==
    IF c.failed_checks # <<>>
    THEN [allowed |-> FALSE, ret |-> DenialOf(c), state |-> c.state]
    ELSE [allowed |-> TRUE, ret |-> AllowanceOf(c),
          state |-> _record_usage(c.state, limit, t, 0)]

\* is_allowed, inside the lock: the returned (allowed, dict) and the usage
\* state of the key afterwards.
is_allowed(s, limit, t) == ReturnOrRecord(run_checks(s, limit, t), limit, t)

\* a token recording that counts a request as well
record_token_usage_as_request(s, t, tokens_used) ==
    _record_usage(s, rate_limit, t, tokens_used)

\* record_token_usage, inside the lock
record_token_usage(s, t, tokens_used) ==
    LET token_entry == Entry(t, tokens_used)
    IN [s EXCEPT
          !.tw = [minute |-> Append(@.minute, token_entry),
                  hour |-> Append(@.hour, token_entry)],
          !.dc = [@ EXCEPT !.tokens = @ + tokens_used],
          !.mc = [@ EXCEPT !.tokens = @ + tokens_used]]

Status(name, current, limit) ==
    [name |-> name, current |-> current, limit |-> limit,
     remaining |-> limit - current]

\* get_rate_limit_status after the calendar check left the usage state s0
StatusOf(s0, limit, t) ==
    LET rpm_window == PopExpired(s0.rw.minute, t - Ticks(MinuteWindow))
        tpm_window == PopExpired(s0.tw.minute, t - Ticks(MinuteWindow))
    IN [ret |-> <<Status("requests_per_minute", Len(rpm_window),
                         limit.requests_per_minute)>>
                \o When(Configured(limit.requests_per_day),
                        Status("requests_per_day", s0.dc.requests,
                               limit.requests_per_day))
                \o When(Configured(limit.tokens_per_minute),
                        Status("tokens_per_minute", SumTokens(tpm_window),
                               limit.tokens_per_minute)),
        state |-> [s0 EXCEPT
                     !.rw.minute = rpm_window,
                     !.tw.minute = IF Configured(limit.tokens_per_minute)
                                   THEN tpm_window ELSE @]]

\* get_rate_limit_status, inside the lock: the returned status and the usage
\* state afterwards
get_rate_limit_status(s, limit, t) ==
    StatusOf(_update_periodic_counters(s, t), limit, t)

\* reset_limit: every map forgets the key
\* reset_limit, a mutation: the day accumulators are not deleted
reset_limit_keeping_day(s) == [FreshUsageState EXCEPT !.dc = s.dc]

reset_limit(s) == FreshUsageState

\* Write the usage state s back as the state of key k.
\* Store, a mutation: the limiter keeps one usage state for all keys
Store_shared(k, s) ==
    /\ request_windows' = [j \in AllKeys |-> s.rw]
    /\ token_windows' = [j \in AllKeys |-> s.tw]
    /\ daily_counters' = [j \in AllKeys |-> s.dc]
    /\ monthly_counters' = [j \in AllKeys |-> s.mc]
    /\ last_reset' = [j \in AllKeys |-> s.lr]

Store(k, s) ==
    /\ request_windows' = [request_windows EXCEPT ![k] = s.rw]
    /\ token_windows' = [token_windows EXCEPT ![k] = s.tw]
    /\ daily_counters' = [daily_counters EXCEPT ![k] = s.dc]
    /\ monthly_counters' = [monthly_counters EXCEPT ![k] = s.mc]
    /\ last_reset' = [last_reset EXCEPT ![k] = s.lr]

-----------------------------------------------------------------------------
(* Initial state: the process has just started, nothing was recorded. *)

IdleTask == [op |-> "none"]

\* BaseProviderClient.__init__ and SmartLoadBalancer.update_provider_stats:
\* the counters of a provider nothing was sent to
NoStats == [total_requests |-> 0, successful_requests |-> 0,
            failed_requests |-> 0]
IdleRoute == [pc |-> "idle"]

\* WeightedRoundRobinBalancer.__init__
InitBalancers ==
    /\ weights = [p \in ProviderSet |-> None]
    /\ current_weights = [p \in ProviderSet |-> None]
    /\ selections = [p \in ProviderSet |-> 0]
    /\ passed_over = [p \in ProviderSet |-> 0]
    /\ current_index = 0
    /\ response_times = [p \in ProviderSet |-> <<>>]
    /\ last_available = [available |-> <<>>, times |-> 0]
    /\ pending = "none"    \* NoProvider

\* the provider clients, the balancer and the router after construction
InitRouted ==
    /\ client_stats = [p \in ProviderSet |-> NoStats]
    /\ provider_stats = [p \in ProviderSet |-> NoStats]
    /\ current_loads = [p \in ProviderSet |-> 0]
    /\ failed_providers = [p \in ProviderSet |-> None]
    /\ route = [t \in RouteTasks |-> IdleRoute]
    /\ running = NoTask
    /\ last_failure = [p \in ProviderSet |-> None]
    /\ last_selection_time = [p \in ProviderSet |-> 0]
    /\ InitBalancers

\* the providers' calls all answer quickly
InitRouting == InitRouted /\ profile = [p \in ProviderSet |-> "fast"]

\* RateLimitStrategy
SLIDING_WINDOW == "sliding_window"
TOKEN_BUCKET == "token_bucket"
FIXED_WINDOW == "fixed_window"
LEAKY_BUCKET == "leaky_bucket"
RateLimitStrategy == {TOKEN_BUCKET, SLIDING_WINDOW, FIXED_WINDOW, LEAKY_BUCKET}

\* a key that is absent from memory_buckets, windows or buckets
NoBucket == [present |-> FALSE]
\* no call was checked since the key was fresh
NoStreak == [n |-> 0, t |-> None]

\* the limiter of every strategy before any call
InitLimiters ==
    /\ memory_buckets = [k \in Keys |-> NoBucket]
    /\ windows = [k \in Keys |-> NoBucket]
    /\ buckets = [k \in Keys |-> NoBucket]
    /\ streak = [k \in Keys |-> NoStreak]
    /\ request_windows = [k \in AllKeys |-> EmptyWindows]
    /\ token_windows = [k \in AllKeys |-> EmptyWindows]
    /\ daily_counters = [k \in AllKeys |-> ZeroCounters]
    /\ monthly_counters = [k \in AllKeys |-> ZeroCounters]
    /\ last_reset = [k \in AllKeys |-> NoReset]
    /\ result = [op |-> "init"]
    /\ admitted = [k \in AllKeys |-> <<>>]
    /\ lock = NoTask
    /\ pc = [t \in Tasks |-> "idle"]
    /\ task = [t \in Tasks |-> IdleTask]

\* RateLimiterManager(): the default strategy is the sliding window
InitUsage == InitLimiters /\ strategy = SLIDING_WINDOW

Init ==
    /\ now \in StartTimes
    /\ advances = 0
    /\ rate_limit \in RateLimits
    /\ api_key \in ApiKeys
    /\ InitUsage
    /\ tenacity = TRUE
    /\ InitRouting

-----------------------------------------------------------------------------
(* The calls, each running to completion (the event loop never switches    *)
(* tasks inside them: no call below awaits anything that suspends).        *)

\* time.time() moves on between two calls
Tick(d) ==
    /\ advances < MaxAdvances
    /\ now' = now + d
    /\ advances' = advances + 1
    /\ UNCHANGED <<extVars, rate_limit, api_key, limiterVars, result, admitted,
                   taskVars>>

\* _get_rate_limit_for_model: one configuration serves the keys of the model
_get_rate_limit_for_model(model) == rate_limit

\* RateLimiterManager.check_rate_limit(key, limit) -> limiter.is_allowed
IsAllowed(k) ==
    /\ lock = NoTask
    /\ api_key[k[1]] # ""
    /\ \E r \in {is_allowed(UsageState(k), rate_limit, now)} :
       /\ r.allowed => Len(admitted[k]) < MaxAdmits
       /\ Store(k, r.state)
       /\ admitted' = IF r.allowed
                      THEN [admitted EXCEPT ![k] = Append(@, now)]
                      ELSE admitted
       /\ result' = [op |-> "is_allowed", key |-> k, t |-> now, ret |-> r.ret]
       /\ UNCHANGED <<extVars, now, advances, rate_limit, api_key, taskVars>>

\* BaseProviderClient.check_availability(model): what it returns and what it
\* does to the usage state s of the key
Availability(r) ==
    IF ~r.allowed
    THEN [available |-> FALSE, consulted |-> TRUE, allowed |-> FALSE,
          ret |-> [error |-> "Rate limit exceeded", rate_info |-> r.ret],
          state |-> r.state]
    ELSE [available |-> TRUE, consulted |-> TRUE, allowed |-> TRUE,
          ret |-> [status |-> "available"], state |-> r.state]

\* an availability check that leaves the usage state as it found it
check_availability_unrecorded(p, model, s, t) ==
    Availability([is_allowed(s, _get_rate_limit_for_model(model), t)
                    EXCEPT !.state = s])

check_availability(p, model, s, t) ==
    IF api_key[p] = ""
    THEN [available |-> FALSE, consulted |-> FALSE, allowed |-> FALSE,
          ret |-> [error |-> "API key not configured"], state |-> s]
    ELSE Availability(is_allowed(s, _get_rate_limit_for_model(model), t))

CheckAvailability(p) ==
    LET k == KeyOf(p, "default")
    IN \E r \in {check_availability(p, "default", UsageState(k), now)} :
       /\ lock = NoTask
       /\ r.allowed => Len(admitted[k]) < MaxAdmits
       /\ Store(k, r.state)
       /\ admitted' = IF r.allowed
                      THEN [admitted EXCEPT ![k] = Append(@, now)]
                      ELSE admitted
       /\ result' = [op |-> "check_availability", key |-> k, t |-> now,
                     available |-> r.available, ret |-> r.ret]
       /\ UNCHANGED <<extVars, now, advances, rate_limit, api_key, taskVars>>

\* the usage states after check_availability() of every client, r[p] being
\* what the check of provider p found and left
StoreStates(r) ==
    LET ProviderOf(k) == k[1]
    IN /\ request_windows' = [k \in AllKeys |->
             IF k \in Keys THEN r[ProviderOf(k)].state.rw ELSE request_windows[k]]
       /\ token_windows' = [k \in AllKeys |->
             IF k \in Keys THEN r[ProviderOf(k)].state.tw ELSE token_windows[k]]
       /\ daily_counters' = [k \in AllKeys |->
             IF k \in Keys THEN r[ProviderOf(k)].state.dc ELSE daily_counters[k]]
       /\ monthly_counters' = [k \in AllKeys |->
             IF k \in Keys THEN r[ProviderOf(k)].state.mc ELSE monthly_counters[k]]
       /\ last_reset' = [k \in AllKeys |->
             IF k \in Keys THEN r[ProviderOf(k)].state.lr ELSE last_reset[k]]

\* the history of admits after the checks r
AdmitsOf(r, before) ==
    [k \in AllKeys |-> IF k \in Keys /\ r[k[1]].allowed
                       THEN Append(before[k], now) ELSE before[k]]

StoreChecks(r) == StoreStates(r) /\ admitted' = AdmitsOf(r, admitted)

\* ProviderManager.get_available_providers: check_availability() of every
\* client in turn; each client has its own key
GetAvailableProviders ==
    \E r \in {[p \in ProviderSet |->
                check_availability(p, "default", UsageState(KeyOf(p, "default")), now)]} :
    LET available == SelectSeq(Providers, LAMBDA p : r[p].available)
    IN /\ lock = NoTask
       /\ \A p \in ProviderSet :
             r[p].allowed => Len(admitted[KeyOf(p, "default")]) < MaxAdmits
       /\ StoreChecks(r)
       /\ result' = [op |-> "get_available_providers", t |-> now,
                     ret |-> [available |-> available]]
       /\ UNCHANGED <<extVars, now, advances, rate_limit, api_key, taskVars>>

\* RateLimiterManager.record_token_usage(key, tokens_used)
RecordTokenUsage(k, n) ==
    /\ lock = NoTask
    /\ api_key[k[1]] # ""
    /\ Len(token_windows[k].hour) < MaxTokenRecords
    /\ Store(k, record_token_usage(UsageState(k), now, n))
    /\ result' = [op |-> "record_token_usage", key |-> k, t |-> now,
                  ret |-> [tokens_used |-> n]]
    /\ UNCHANGED <<extVars, now, advances, rate_limit, api_key, admitted, taskVars>>

\* RateLimiterManager.get_rate_limit_status(key, limit)
GetRateLimitStatus(k) ==
    /\ lock = NoTask
    /\ api_key[k[1]] # ""
    /\ \E r \in {get_rate_limit_status(UsageState(k), rate_limit, now)} :
       /\ Store(k, r.state)
       /\ result' = [op |-> "get_rate_limit_status", key |-> k, t |-> now,
                     ret |-> [status |-> r.ret]]
       /\ UNCHANGED <<extVars, now, advances, rate_limit, api_key, admitted, taskVars>>

\* RateLimiterManager.reset_provider_limit(key)
ResetLimit(k) ==
    /\ lock = NoTask
    /\ api_key[k[1]] # ""
    /\ Store(k, reset_limit(UsageState(k)))
    /\ admitted' = [admitted EXCEPT ![k] = <<>>]
    /\ result' = [op |-> "reset_limit", key |-> k, t |-> now, ret |-> [ok |-> TRUE]]
    /\ UNCHANGED <<extVars, now, advances, rate_limit, api_key, taskVars>>

\* ProviderManager.get_provider_stats: get_stats() and check_availability()
\* of every client in turn
GetProviderStats ==
    /\ lock = NoTask
    /\ \E r \in {[p \in ProviderSet |->
                   check_availability(p, "default",
                                      UsageState(KeyOf(p, "default")), now)]} :
       /\ \A p \in ProviderSet :
             r[p].allowed => Len(admitted[KeyOf(p, "default")]) < MaxAdmits
       /\ StoreChecks(r)
       /\ result' = [op |-> "get_provider_stats", t |-> now,
                     ret |-> [p \in ProviderSet |->
                                [stats |-> client_stats[p],
                                 available |-> r[p].available,
                                 availability_info |-> r[p].ret]]]
    /\ UNCHANGED <<extVars, now, advances, rate_limit, api_key, taskVars>>

\* LoadBalancerManager.get_load_balancer_stats: get_provider_stats() and
\* then get_available_providers(), each checking every client
GetLoadBalancerStats ==
    /\ lock = NoTask
    /\ \E r1 \in {[p \in ProviderSet |->
                   check_availability(p, "default",
                                      UsageState(KeyOf(p, "default")), now)]} :
       \E r2 \in {[p \in ProviderSet |->
                   check_availability(p, "default", r1[p].state, now)]} :
       /\ \A p \in ProviderSet :
             r1[p].allowed => Len(admitted[KeyOf(p, "default")]) + 1 < MaxAdmits
       /\ StoreStates(r2)
       /\ admitted' = AdmitsOf(r2, AdmitsOf(r1, admitted))
       /\ result' = [op |-> "get_load_balancer_stats", t |-> now,
                     ret |-> [available_providers |->
                                 Cardinality({p \in ProviderSet : r2[p].available}),
                              circuit_broken_providers |->
                                 Cardinality({p \in ProviderSet :
                                                failed_providers[p] # None}),
                              provider_stats |->
                                 [p \in ProviderSet |->
                                    [stats |-> client_stats[p],
                                     available |-> r1[p].available]]]]
    /\ UNCHANGED <<extVars, now, advances, rate_limit, api_key, taskVars>>

Next ==
    \/ \E d \in Advances : Tick(d)
    \/ \E k \in Keys : IsAllowed(k)
    \/ \E k \in Keys, n \in TokenAmounts : RecordTokenUsage(k, n)
    \/ \E k \in Keys : GetRateLimitStatus(k)
    \/ \E k \in Keys : ResetLimit(k)

Spec == Init /\ [][Next]_vars

\* two providers have their API key in the environment: the limiter holds
\* the usage of two keys
TwoApiKeys ==
    { [p \in ProviderSet |-> IF p = Providers[3] THEN "" ELSE "sk"] }

\* the run starts one tick before the end of a month
InitKeys ==
    /\ now = Ticks(31 * SecondsPerDay) - 1
    /\ advances = 0
    /\ rate_limit \in RateLimits
    /\ api_key \in TwoApiKeys
    /\ InitUsage
    /\ tenacity = TRUE
    /\ InitRouting

\* the calls on the two keys; the clock moves on once, by a tick or a minute
NextKeys ==
    \/ \E d \in {1, Ticks(MinuteWindow)} : advances = 0 /\ Tick(d)
    \/ \E k \in Keys : IsAllowed(k)
    \/ \E k \in Keys, n \in {3} : RecordTokenUsage(k, n)
    \/ \E k \in Keys : GetRateLimitStatus(k)
    \/ \E k \in Keys : ResetLimit(k)

SpecKeys == InitKeys /\ [][NextKeys]_vars

\* The provider clients' availability checks in front of the limiter.
NextAvailability ==
    \/ \E d \in Advances : Tick(d)
    \/ \E p \in ProviderSet : CheckAvailability(p)
    \/ GetAvailableProviders
    \/ \E k \in Keys : IsAllowed(k)

SpecAvailability == Init /\ [][NextAvailability]_vars

\* The status and analytics calls next to the admits.
NextStatus ==
    \/ \E d \in Advances : Tick(d)
    \/ \E k \in Keys : GetRateLimitStatus(k)
    \/ GetProviderStats
    \/ GetLoadBalancerStats
    \/ \E k \in Keys : IsAllowed(k)

SpecStatus == Init /\ [][NextStatus]_vars

-----------------------------------------------------------------------------
(* The same calls as concurrent tasks of the event loop.  A task may be     *)
(* switched out wherever the code awaits: at `async with self._lock` and,   *)
(* inside is_allowed, at `await self._record_usage(...)` after the checks.  *)

\* a lock that excludes nobody
CanAcquireUnlocked(l) == TRUE

\* asyncio.Lock: acquire() succeeds only while nobody holds the lock
CanAcquire(l) == l = NoTask

\* a task calls is_allowed, record_token_usage or reset_limit on a key
Call(t, op, k, n) ==
    /\ pc[t] = "idle"
    /\ api_key[k[1]] # ""
    /\ op = "record_token_usage" =>
          Len(token_windows[k].hour)
             + Cardinality({u \in Tasks : task[u].op = "record_token_usage"
                                          /\ task[u].key = k})
             < MaxTokenRecords
    /\ pc' = [pc EXCEPT ![t] = "acquire"]
    /\ task' = [task EXCEPT ![t] = [op |-> op, key |-> k, tokens_used |-> n]]
    /\ UNCHANGED <<extVars, now, advances, rate_limit, api_key, limiterVars, result,
                   admitted, lock>>

\* async with self._lock
Acquire(t) ==
    /\ pc[t] = "acquire"
    /\ CanAcquire(lock)
    /\ lock' = t
    /\ pc' = [pc EXCEPT ![t] = "locked"]
    /\ UNCHANGED <<extVars, now, advances, rate_limit, api_key, limiterVars, result,
                   admitted, task>>

\* is_allowed from `now = time.time()` to `failed_checks`; a denial returns
\* and releases the lock (what a call returns goes to its caller and is not
\* kept in `result` here)
RunChecks(t) ==
    LET k == task[t].key
    IN /\ pc[t] = "locked" /\ task[t].op = "is_allowed"
       /\ \E c \in {run_checks(UsageState(k), rate_limit, now)} :
          /\ c.failed_checks = <<>> => Len(admitted[k]) < MaxAdmits
          /\ Store(k, c.state)
          /\ IF c.failed_checks # <<>>
             THEN /\ lock' = NoTask
                  /\ pc' = [pc EXCEPT ![t] = "idle"]
                  /\ task' = [task EXCEPT ![t] = IdleTask]
             ELSE /\ pc' = [pc EXCEPT ![t] = "record"]
                  /\ task' = [task EXCEPT ![t] =
                                [op |-> "is_allowed", key |-> k, now |-> now,
                                 seen |-> c.state]]
                  /\ UNCHANGED lock
          /\ UNCHANGED <<extVars, now, advances, rate_limit, api_key, admitted, result>>

\* await self._record_usage(key, limit, now); return True, releasing the lock
RecordUsage(t) ==
    LET k == task[t].key
    IN /\ pc[t] = "record"
       /\ Store(k, _record_usage(UsageState(k), rate_limit, task[t].now, 0))
       /\ admitted' = [admitted EXCEPT ![k] = Append(@, task[t].now)]
       /\ lock' = NoTask
       /\ pc' = [pc EXCEPT ![t] = "idle"]
       /\ task' = [task EXCEPT ![t] = IdleTask]
       /\ UNCHANGED <<extVars, now, advances, rate_limit, api_key, result>>

\* the body of record_token_usage, inside the lock
RecordTokens(t) ==
    LET k == task[t].key
    IN /\ pc[t] = "locked" /\ task[t].op = "record_token_usage"
       /\ Store(k, record_token_usage(UsageState(k), now, task[t].tokens_used))
       /\ lock' = NoTask
       /\ pc' = [pc EXCEPT ![t] = "idle"]
       /\ task' = [task EXCEPT ![t] = IdleTask]
       /\ UNCHANGED <<extVars, now, advances, rate_limit, api_key, admitted, result>>

\* the body of reset_limit, inside the lock
Reset(t) ==
    LET k == task[t].key
    IN /\ pc[t] = "locked" /\ task[t].op = "reset_limit"
       /\ Store(k, reset_limit(UsageState(k)))
       /\ admitted' = [admitted EXCEPT ![k] = <<>>]
       /\ lock' = NoTask
       /\ pc' = [pc EXCEPT ![t] = "idle"]
       /\ task' = [task EXCEPT ![t] = IdleTask]
       /\ UNCHANGED <<extVars, now, advances, rate_limit, api_key, result>>

\* the concurrent runs start at the first start time and see the clock
\* advance by a tick or by the minute window
InitConcurrent == Init /\ \A t0 \in StartTimes : now <= t0

NextConcurrent ==
    \/ \E d \in {1, Ticks(MinuteWindow)} : Tick(d)
    \/ \E t \in Tasks, k \in Keys : Call(t, "is_allowed", k, 0)
    \/ \E t \in Tasks, k \in Keys, n \in TokenAmounts :
          Call(t, "record_token_usage", k, n)
    \/ \E t \in Tasks, k \in Keys : Call(t, "reset_limit", k, 0)
    \/ \E t \in Tasks : Acquire(t)
    \/ \E t \in Tasks : RunChecks(t)
    \/ \E t \in Tasks : RecordUsage(t)
    \/ \E t \in Tasks : RecordTokens(t)
    \/ \E t \in Tasks : Reset(t)

SpecConcurrent == InitConcurrent /\ [][NextConcurrent]_vars

-----------------------------------------------------------------------------
(* Part 2: routing a completion request                                     *)
(* (app/services/load_balancer.py, LoadBalancerManager with the             *)
(* SmartLoadBalancer of the global instance; the clients' generate_completion*)
(* of app/services/provider_clients.py; LLMService.generate_completion of   *)
(* app/services/llm_service.py).                                            *)
(*                                                                          *)
(* The calls are coroutines of one event loop: a call runs alone (`running`)*)
(* until it suspends, which it does only in asyncio.sleep, in the wait of a *)
(* tenacity retry and while the HTTP request is in flight.  The limiter's   *)
(* lock is free whenever a coroutine asks for it, so a limiter call never   *)
(* suspends.                                                                *)

\* a budget of one attempt more
retry_attempts_more == 3 + 1

\* LoadBalancerManager.__init__
retry_attempts == 3
circuit_breaker_timeout == 300
\* @retry(stop=stop_after_attempt(3), wait=wait_exponential(min=4, ...)): the
\* exponential wait stays at its minimum for the two waits there can be
stop_after_attempt == 3
wait_min == 4

\* ProviderClientFactory.create_client: the third configured provider is
\* Gemini, the others speak the OpenAI protocol
ClientKind(p) == IF p = Providers[3] THEN "gemini" ELSE "openai_compatible"

\* LLMRequest: floats in tenths (temperature, top_p); None = not given,
\* NoModel = no preferred model
LLMRequest(query, model, max_tokens, temperature, top_p, top_k) ==
    [query |-> query, model |-> model, max_tokens |-> max_tokens,
     temperature |-> temperature, top_p |-> top_p, top_k |-> top_k]

\* a request that leaves every optional field at its default; the query is
\* its sequence of characters
NoModel == ""
DefaultRequest == LLMRequest(<<"h", "i">>, NoModel, 2048, 7, 9, 40)

\* model = request.model if request.model in self.models else self.models[0]
EffectiveModel(request) ==
    IF \E i \in 1..Len(Models) : Models[i] = request.model
    THEN request.model ELSE Models[1]

NoProvider == "none"
NoError == [provider |-> NoProvider, cause |-> "None", retry_error |-> FALSE]
\* an entry of a call's log: what it did, to which provider, when
Event(kind, p, info) ==
    [kind |-> kind, provider |-> p, t |-> now, info |-> info]

\* the counters of _update_stats and of update_provider_stats
Counted(st, success) ==
    [total_requests |-> st.total_requests + 1,
     successful_requests |-> st.successful_requests + (IF success THEN 1 ELSE 0),
     failed_requests |-> st.failed_requests + (IF success THEN 0 ELSE 1)]

\* BaseProviderClient._update_stats(success, latency), called n times
RECURSIVE _update_stats(_, _, _)
_update_stats(st, success, n) ==
    IF n = 0 THEN st ELSE _update_stats(Counted(st, success), success, n - 1)

\* SmartLoadBalancer.update_provider_stats: max(0, current_loads - 1)
\* update_provider_stats, a mutation: the load is not decreased
Unloaded_kept(load) == load

Unloaded(load) == IF load > 0 THEN load - 1 ELSE 0

\* a breaker that closes again at once
_is_circuit_broken_never(fp, p, t) == FALSE

\* LoadBalancerManager._is_circuit_broken
_is_circuit_broken(fp, p, t) ==
    /\ fp[p] # None
    /\ t - fp[p] < Ticks(circuit_breaker_timeout)

\* a backoff that does not grow
Backoff_constant(attempts) == 1

\* min(attempts * 0.5, 2.0), in half seconds
Backoff(attempts) == IF attempts < 4 THEN attempts ELSE 4
\* asyncio.sleep(half seconds): the ticks that pass at least
SleepTicks(half) == (half * TicksPerSecond + 1) \div 2

\* a route_request call at its top
StartedRoute(request) ==
    [pc |-> "loop", request |-> request, attempts |-> 0, last_error |-> NoError,
     provider_name |-> NoProvider, tries |-> 0, wake |-> 0,
     outcome |-> [kind |-> "none"], log |-> <<>>]

Finished(r, outcome) == [r EXCEPT !.pc = "done", !.outcome = outcome]

\* route_request(request): attempts = 0; last_error = None
RouteRequest(t, request) ==
    /\ running = NoTask
    /\ route[t].pc = "idle"
    /\ route' = [route EXCEPT ![t] = StartedRoute(request)]
    /\ running' = t
    /\ UNCHANGED <<now, advances, rate_limit, api_key, limiterVars, result,
                   admitted, taskVars, strategyVars, wrrVars,
                   last_selection_time, tenacity, client_stats, provider_stats,
                   current_loads, failed_providers, last_failure>>

\* the while loop ends with the budget spent:
\* raise Exception(f"All providers failed. Last error: {last_error}")
Exhausted(t) ==
    /\ running = t
    /\ route[t].pc = "loop"
    /\ route[t].attempts >= retry_attempts
    /\ route' = [route EXCEPT ![t] =
                   Finished(@, [kind |-> "raised",
                                message |-> "All providers failed",
                                last_error |-> route[t].last_error])]
    /\ running' = NoTask
    /\ UNCHANGED <<now, advances, rate_limit, api_key, limiterVars, result,
                   admitted, taskVars, strategyVars, wrrVars,
                   last_selection_time, tenacity, client_stats, provider_stats,
                   current_loads, failed_providers, last_failure>>

\* attempts += 1; provider_name = await self.balancer.select_provider(request)
\* SmartLoadBalancer.select_provider draws among the (at most three)
\* best-scored available providers with random.uniform; every score is
\* positive, so the draw can fall on each of them.  Without a provider the
\* call sleeps a second, or raises on its last attempt.
SelectProvider(t) ==
    /\ running = t
    /\ route[t].pc = "loop"
    /\ route[t].attempts < retry_attempts
    /\ \E r \in {[p \in ProviderSet |->
                   check_availability(p, "default",
                                      UsageState(KeyOf(p, "default")), now)]} :
       LET attempts == route[t].attempts + 1
           available == SelectSeq(Providers, LAMBDA p : r[p].available)
       IN /\ StoreChecks(r)
          /\ IF available = <<>>
             THEN /\ IF attempts < retry_attempts
                     THEN route' = [route EXCEPT ![t] =
                                [@ EXCEPT !.attempts = attempts,
                                          !.pc = "sleeping",
                                          !.wake = now + Ticks(1),
                                          !.log = @ \o
                                             <<Event("select", NoProvider, attempts),
                                               Event("sleep", NoProvider, 2)>>]]
                     ELSE route' = [route EXCEPT ![t] =
                                Finished([@ EXCEPT !.attempts = attempts,
                                                   !.log = Append(@,
                                                      Event("select", NoProvider, attempts))],
                                         [kind |-> "raised",
                                          message |-> "No providers available after retries",
                                          last_error |-> route[t].last_error])]
                  /\ running' = NoTask
                  /\ UNCHANGED <<current_loads, last_selection_time>>
             ELSE \E i \in 1..Len(available) :
                  /\ route' = [route EXCEPT ![t] =
                                 [@ EXCEPT !.attempts = attempts,
                                           !.pc = "dispatch",
                                           !.provider_name = available[i],
                                           !.log = Append(@,
                                              Event("select", available[i], attempts))]]
                  /\ current_loads' = [current_loads EXCEPT ![available[i]] = @ + 1]
                  /\ last_selection_time' =
                        [last_selection_time EXCEPT ![available[i]] = now]
                  /\ UNCHANGED running
    /\ UNCHANGED <<now, advances, rate_limit, api_key, result, taskVars, strategyVars, wrrVars,
                   tenacity, client_stats, provider_stats, failed_providers,
                   last_failure>>

\* if self._is_circuit_broken(provider_name): continue
\* else client.generate_completion(request) is called
Dispatch(t) ==
    /\ running = t
    /\ route[t].pc = "dispatch"
    /\ IF _is_circuit_broken(failed_providers, route[t].provider_name, now)
       THEN route' = [route EXCEPT ![t].pc = "loop",
                                   ![t].log = Append(@,
                                      Event("skip", route[t].provider_name, 0))]
       ELSE route' = [route EXCEPT ![t].pc = "generate", ![t].tries = 1,
                                   ![t].log = Append(@,
                                      Event("dispatch", route[t].provider_name, 0))]
    /\ UNCHANGED <<now, advances, rate_limit, api_key, limiterVars, result,
                   admitted, taskVars, strategyVars, wrrVars,
                   last_selection_time, tenacity, client_stats, provider_stats,
                   current_loads, failed_providers, running, last_failure>>

\* the except branch of route_request: last_error = e; the balancer counts a
\* failure; the provider's circuit opens now; the call backs off while
\* attempts remain
RouterFailure(t, p, error, evs) ==
    LET more == route[t].attempts < retry_attempts
    IN /\ provider_stats' = [provider_stats EXCEPT ![p] = Counted(@, FALSE)]
       /\ current_loads' = [current_loads EXCEPT ![p] = Unloaded(@)]
       /\ failed_providers' = [failed_providers EXCEPT ![p] = now]
       /\ last_failure' = [last_failure EXCEPT ![p] = now]
       /\ route' = [route EXCEPT ![t] =
                      [@ EXCEPT !.pc = IF more THEN "sleeping" ELSE "loop",
                                !.last_error = error,
                                !.wake = now + SleepTicks(Backoff(route[t].attempts)),
                                !.log = @ \o evs
                                   \o <<Event("failure", p, error.cause)>>
                                   \o (IF more
                                       THEN <<Event("sleep", p,
                                                    Backoff(route[t].attempts))>>
                                       ELSE <<>>)]]
       /\ running' = IF more THEN NoTask ELSE t

\* the except branch of generate_completion: self._update_stats(False, ..)
\* (the n-th time in this try) and raise Exception("<provider> error: ..").
\* tenacity runs the Gemini client again after the wait, up to the third try,
\* and then raises RetryError; the OpenAI-compatible client retries only
\* httpx exceptions, which never leave its body.
ClientFailure(t, p, cause, n, evs) ==
    /\ client_stats' = [client_stats EXCEPT ![p] = _update_stats(@, FALSE, n)]
    /\ IF ClientKind(p) = "gemini" /\ tenacity
       THEN IF route[t].tries < stop_after_attempt
            THEN /\ route' = [route EXCEPT ![t].pc = "retry_wait",
                                           ![t].wake = now + Ticks(wait_min),
                                           ![t].log = @ \o evs
                                              \o <<Event("retry", p, cause)>>]
                 /\ running' = NoTask
                 /\ UNCHANGED <<provider_stats, current_loads, failed_providers,
                                last_failure>>
            ELSE RouterFailure(t, p, [provider |-> p, cause |-> cause,
                                      retry_error |-> TRUE], evs)
       ELSE RouterFailure(t, p, [provider |-> p, cause |-> cause,
                                 retry_error |-> FALSE], evs)

\* generate_completion up to the HTTP request: check_availability(model)
\* admits on '<provider>:<model>'; a provider that is not available raises
\* "Provider unavailable" and nothing is sent
Generate(t) ==
    /\ running = t
    /\ route[t].pc = "generate"
    /\ \E p \in {route[t].provider_name} :
       \E k \in {KeyOf(p, EffectiveModel(route[t].request))} :
       \E r \in {check_availability(p, k[2], UsageState(k), now)} :
          /\ Store(k, r.state)
          /\ admitted' = IF r.allowed
                         THEN [admitted EXCEPT ![k] = Append(@, now)]
                         ELSE admitted
          /\ IF r.available
             THEN /\ route' = [route EXCEPT ![t].pc = "posting",
                                            ![t].log = @ \o
                                               <<Event("admit", p, k),
                                                 Event("post", p, k)>>]
                  /\ running' = NoTask
                  /\ UNCHANGED <<client_stats, provider_stats, current_loads,
                                 failed_providers, last_failure>>
             ELSE \E evs \in {<<Event(IF r.consulted THEN "deny" ELSE "no_key",
                                      p, k)>>} :
                     ClientFailure(t, p, "Provider unavailable", 1, evs)
    /\ UNCHANGED <<now, advances, rate_limit, api_key, result, taskVars, strategyVars, wrrVars,
                   last_selection_time,
                   tenacity>>

\* what the provider answers: a completion that reports its total_tokens (or
\* none), HTTP 429, or another failure (an error status, a timeout, a
\* connection error, an answer without content)
Outcomes == {"ok", "429", "error"}
\* the failure told apart: "timeout" is httpx.TimeoutException or
\* httpx.ConnectError raised by client.post, "error" the others
AdapterOutcomes == Outcomes \cup {"timeout"}

\* str(e) of the exception the outcome raises inside the try
CauseOf(outcome) ==
    IF outcome = "429" THEN "Rate limit exceeded"
    ELSE IF outcome = "timeout" THEN "Timeout"
    ELSE "HTTP error"
ReportedTokens == {None, 4}

\* generate_completion after the HTTP request, and route_request after it.
\* 429: self._update_stats(False, latency); raise Exception("Rate limit
\* exceeded: ..") inside the try, whose except branch counts it again.
\* Success: record_token_usage(model, total_tokens); _update_stats(True, ..);
\* the router counts the success and deletes the provider's circuit entry.
Response(t, outcome, n) ==
    /\ running = NoTask
    /\ route[t].pc = "posting"
    /\ outcome # "ok" => n = None
    /\ \E p \in {route[t].provider_name} :
       \E k \in {KeyOf(p, EffectiveModel(route[t].request))} :
          IF outcome = "ok"
          THEN /\ IF n = None
                  THEN UNCHANGED limiterVars
                  ELSE Store(k, record_token_usage(UsageState(k), now, n))
               /\ client_stats' = [client_stats EXCEPT ![p] =
                                     _update_stats(@, TRUE, 1)]
               /\ provider_stats' = [provider_stats EXCEPT ![p] = Counted(@, TRUE)]
               /\ current_loads' = [current_loads EXCEPT ![p] = Unloaded(@)]
               /\ failed_providers' = [failed_providers EXCEPT ![p] = None]
               /\ last_failure' = [last_failure EXCEPT ![p] = None]
               /\ route' = [route EXCEPT ![t] =
                              Finished([@ EXCEPT !.log = Append(@,
                                                   Event("success", p, n))],
                                       [kind |-> "returned", provider |-> p,
                                        model |-> k[2]])]
               /\ running' = NoTask
          ELSE /\ UNCHANGED limiterVars
               /\ ClientFailure(t, p, CauseOf(outcome),
                                IF outcome = "429" THEN 2 ELSE 1,
                                <<Event("response", p, outcome)>>)
    /\ UNCHANGED <<now, advances, rate_limit, api_key, result, admitted,
                   taskVars, strategyVars, wrrVars,
                   last_selection_time, tenacity>>

Waiting(t) == route[t].pc \in {"sleeping", "retry_wait"}

\* asyncio.sleep and the retry wait end: the event loop resumes the call
\* whose timer is due first, not before its time
Wake(t) ==
    /\ running = NoTask
    /\ Waiting(t)
    /\ \A u \in RouteTasks : Waiting(u) => route[t].wake <= route[u].wake
    /\ now' = IF now < route[t].wake THEN route[t].wake ELSE now
    /\ route' = [route EXCEPT ![t] =
                   IF route[t].pc = "sleeping"
                   THEN [@ EXCEPT !.pc = "loop"]
                   ELSE [@ EXCEPT !.pc = "generate", !.tries = @ + 1]]
    /\ running' = t
    /\ UNCHANGED <<advances, rate_limit, api_key, limiterVars, result,
                   admitted, taskVars, strategyVars, wrrVars,
                   last_selection_time, tenacity, client_stats, provider_stats,
                   current_loads, failed_providers, last_failure>>

\* requests only, more of them than two calls can spend in a minute
AmpleLimit ==
    RateLimit(2 * retry_attempts + 1, None, None, None, None, None, None, None)
\* the limits of the routed providers: ample, or every dimension, tightly
RouterRateLimits == {AmpleLimit, RateLimit(2, 2, 2, 2, 3, 3, 3, 3)}
\* every provider has its API key in the environment, or none has
RouterApiKeys == {[p \in ProviderSet |-> "sk"], [p \in ProviderSet |-> ""]}

InitRouter ==
    /\ now \in StartTimes /\ \A t0 \in StartTimes : now <= t0
    /\ advances = 0
    /\ rate_limit \in RouterRateLimits
    /\ api_key \in RouterApiKeys
    /\ InitUsage
    /\ tenacity \in BOOLEAN
    /\ InitRouting

\* one route_request call; the clock moves with its sleeps
FirstCall == {"r1"}

NextRouter ==
    \/ \E t \in FirstCall : RouteRequest(t, DefaultRequest)
    \/ \E t \in FirstCall : SelectProvider(t)
    \/ \E t \in FirstCall : Exhausted(t)
    \/ \E t \in FirstCall : Dispatch(t)
    \/ \E t \in FirstCall : Generate(t)
    \/ \E t \in FirstCall, outcome \in Outcomes, n \in ReportedTokens :
          Response(t, outcome, n)
    \/ \E t \in FirstCall : Wake(t)

SpecRouter == InitRouter /\ [][NextRouter]_vars

\* call t holds the event loop at a selection or at the adapter's rate-limit
\* check: the guards of SelectProvider and Generate, whose bodies are total
Computing(t) ==
    /\ running = t
    /\ \/ route[t].pc = "loop" /\ route[t].attempts < retry_attempts
       \/ route[t].pc = "generate"

\* the steps of call t that end a wait or cost no computation: the loop's
\* exit, the circuit test, the return of an adapter call (Response) and the
\* return of a sleep (Wake)
Progress(t) ==
    \/ Exhausted(t)
    \/ Dispatch(t)
    \/ \E outcome \in Outcomes, n \in ReportedTokens : Response(t, outcome, n)
    \/ Wake(t)

\* the single call when every adapter call and every sleep returns and the
\* event loop runs the call whenever it can run: weak fairness of each step,
\* that of SelectProvider and Generate written out with their guard for
\* ENABLED
FairRouter ==
    /\ SpecRouter
    /\ \A t \in FirstCall :
          /\ WF_vars(Progress(t))
          /\ []<>(~Computing(t)) \/ []<><<SelectProvider(t) \/ Generate(t)>>_vars

\* one route_request call whose provider calls may also time out
NextAdapter ==
    \/ \E t \in FirstCall : RouteRequest(t, DefaultRequest)
    \/ \E t \in FirstCall : SelectProvider(t)
    \/ \E t \in FirstCall : Exhausted(t)
    \/ \E t \in FirstCall : Dispatch(t)
    \/ \E t \in FirstCall : Generate(t)
    \/ \E t \in FirstCall, outcome \in AdapterOutcomes, n \in ReportedTokens :
          Response(t, outcome, n)
    \/ \E t \in FirstCall : Wake(t)

SpecAdapter == InitRouter /\ [][NextAdapter]_vars

\* Concurrent route_request calls on one configured provider, the clock
\* moving while the event loop waits, by the circuit breaker's timeout or
\* by a tick less.
CircuitAdvances == {Ticks(circuit_breaker_timeout) - 1,
                    Ticks(circuit_breaker_timeout)}

InitCircuit ==
    /\ now \in StartTimes /\ \A t0 \in StartTimes : now <= t0
    /\ advances = 0
    /\ rate_limit = AmpleLimit
    /\ api_key \in ApiKeys
    /\ InitUsage
    /\ tenacity = FALSE
    /\ InitRouting

NextCircuit ==
    \/ \E d \in CircuitAdvances : running = NoTask /\ Tick(d)
    \/ \E t \in RouteTasks : RouteRequest(t, DefaultRequest)
    \/ \E t \in RouteTasks : SelectProvider(t)
    \/ \E t \in RouteTasks : Exhausted(t)
    \/ \E t \in RouteTasks : Dispatch(t)
    \/ \E t \in RouteTasks : Generate(t)
    \/ \E t \in RouteTasks, outcome \in Outcomes : Response(t, outcome, None)
    \/ \E t \in RouteTasks : Wake(t)

SpecCircuit == InitCircuit /\ [][NextCircuit]_vars

-----------------------------------------------------------------------------
(* LLMService.generate_completion: validation in front of the router *)

Whitespace == {" ", "\t", "\n"}

\* str.strip()
RECURSIVE lstrip(_)
lstrip(str) ==
    IF str # <<>> /\ Head(str) \in Whitespace THEN lstrip(Tail(str)) ELSE str
RECURSIVE rstrip(_)
rstrip(str) ==
    IF str # <<>> /\ str[Len(str)] \in Whitespace
    THEN rstrip(SubSeq(str, 1, Len(str) - 1)) ELSE str
strip(str) == rstrip(lstrip(str))

\* the truth value Python gives an Optional[int] or Optional[float]
Truthy(x) == x # None /\ x # 0

\* LLMService._validate_request
_validate_request(request) ==
    IF request.query = <<>> \/ Len(strip(request.query)) = 0 THEN FALSE
    ELSE IF Truthy(request.max_tokens)
            /\ (request.max_tokens < 1 \/ request.max_tokens > 8192) THEN FALSE
    ELSE IF Truthy(request.temperature)
            /\ (request.temperature < 0 \/ request.temperature > 20) THEN FALSE
    ELSE IF Truthy(request.top_p)
            /\ (request.top_p < 0 \/ request.top_p > 10) THEN FALSE
    ELSE IF Truthy(request.top_k) /\ request.top_k < 1 THEN FALSE
    ELSE TRUE

\* LLMRequest objects: the default request with one field changed
Requests ==
    {[DefaultRequest EXCEPT !.query = q] :
        q \in {<<>>, <<" ">>, <<" ", "\n">>, <<" ", "h", " ">>}}
    \cup {[DefaultRequest EXCEPT !.model = m] : m \in {NoModel, "m1", "m9"}}
    \cup {[DefaultRequest EXCEPT !.max_tokens = n] :
             n \in {None, 0 - 1, 0, 1, 8192, 8193}}
    \cup {[DefaultRequest EXCEPT !.temperature = x] : x \in {None, 0 - 1, 0, 20, 21}}
    \cup {[DefaultRequest EXCEPT !.top_p = x] : x \in {None, 0 - 1, 0, 10, 11}}
    \cup {[DefaultRequest EXCEPT !.top_k = n] : n \in {None, 0 - 1, 0, 1}}

\* LLMService.generate_completion(request): raise ValueError("Invalid
\* request parameters") or hand the request to load_balancer.route_request
GenerateCompletion(t, request) ==
    IF _validate_request(request)
    THEN RouteRequest(t, request)
    ELSE /\ running = NoTask
         /\ route[t].pc = "idle"
         /\ route' = [route EXCEPT ![t] =
                        Finished(StartedRoute(request),
                                 [kind |-> "raised",
                                  message |-> "Invalid request parameters",
                                  last_error |-> NoError])]
         /\ UNCHANGED <<now, advances, rate_limit, api_key, limiterVars, result,
                        admitted, taskVars, strategyVars, wrrVars,
                   last_selection_time, tenacity, client_stats,
                        provider_stats, current_loads, failed_providers,
                        running, last_failure>>

InitService ==
    /\ now \in StartTimes /\ \A t0 \in StartTimes : now <= t0
    /\ advances = 0
    /\ rate_limit = AmpleLimit
    /\ api_key \in ApiKeys
    /\ InitUsage
    /\ tenacity = FALSE
    /\ InitRouting

NextService ==
    \/ \E t \in FirstCall, request \in Requests : GenerateCompletion(t, request)
    \/ \E t \in FirstCall : SelectProvider(t)
    \/ \E t \in FirstCall : Exhausted(t)
    \/ \E t \in FirstCall : Dispatch(t)
    \/ \E t \in FirstCall : Generate(t)
    \/ \E t \in FirstCall, outcome \in Outcomes, n \in ReportedTokens :
          Response(t, outcome, n)
    \/ \E t \in FirstCall : Wake(t)

SpecService == InitService /\ [][NextService]_vars

-----------------------------------------------------------------------------
(* Part 3: the rate-limit strategies behind RateLimiterManager             *)
(* (app/utils/rate_limiter.py).  The manager is constructed with one       *)
(* strategy and hands every call to the limiter of that strategy.  The     *)
(* token bucket and the leaky bucket hold a float number of tokens that    *)
(* changes by requests_per_minute / 60 per second: the model keeps it in   *)
(* units of 1 / Scale token, in which one tick changes it by               *)
(* requests_per_minute units.                                              *)

MaxLimit == 3

Scale == 60 * TicksPerSecond

Smaller(a, b) == IF a <= b THEN a ELSE b
Larger(a, b) == IF a >= b THEN a ELSE b

\* if bucket['tokens'] >= 1, a mutation: a token is needed beyond the one taken
HasToken_strict(tokens) == tokens > Scale

\* if bucket['tokens'] >= 1
HasToken(tokens) == tokens >= Scale

\* TokenBucketRateLimiter._memory_token_bucket on the bucket of one key
_memory_token_bucket(bucket, limit, t) ==
    LET rpm == limit.requests_per_minute
        tokens0 == IF bucket.present THEN bucket.tokens ELSE rpm * Scale
        last_refill == IF bucket.present THEN bucket.last_refill ELSE t
        time_passed == t - last_refill
        tokens == Smaller(rpm * Scale, tokens0 + time_passed * rpm)
    IN IF HasToken(tokens)
       THEN [allowed |-> TRUE,
             bucket |-> [present |-> TRUE, tokens |-> tokens - Scale,
                         last_refill |-> t],
             ret |-> [allowed |-> TRUE,
                      tokens_remaining |-> (tokens - Scale) \div Scale]]
       ELSE [allowed |-> FALSE,
             bucket |-> [present |-> TRUE, tokens |-> tokens,
                         last_refill |-> t],
             ret |-> [allowed |-> FALSE, tokens_remaining |-> 0,
                      retry_after |-> ((Scale - tokens) * 60) \div (Scale * rpm)]]

\* if current_count >= limit.requests_per_minute, a mutation: one more call
\* passes
WindowFull_late(current_count, limit) ==
    current_count > limit.requests_per_minute

\* if current_count >= limit.requests_per_minute
WindowFull(current_count, limit) ==
    current_count >= limit.requests_per_minute

\* FixedWindowRateLimiter.is_allowed on the window of one key; window_start
\* and reset_time are whole seconds.  A key whose window was never started
\* reads window_start 0 and has no count: in the minute that starts at 0 the
\* code raises KeyError
FixedWindowIsAllowed(window_data, limit, t) ==
    LET rpm == limit.requests_per_minute
        window_start == (t \div Ticks(60)) * 60
        stored_start == IF window_data.present THEN window_data.window_start ELSE 0
        started == stored_start # window_start
        current_count == IF started THEN 0
                         ELSE IF window_data.present THEN window_data.count
                         ELSE None
    IN IF current_count = None
       THEN [allowed |-> FALSE, bucket |-> window_data,
             ret |-> [allowed |-> FALSE, raised |-> "KeyError"]]
       ELSE IF WindowFull(current_count, limit)
       THEN [allowed |-> FALSE,
             bucket |-> [present |-> TRUE, window_start |-> window_start,
                         count |-> current_count],
             ret |-> [allowed |-> FALSE, current_count |-> current_count,
                      limit |-> rpm, reset_time |-> window_start + 60,
                      retry_after |-> (Ticks(window_start + 60) - t)
                                         \div TicksPerSecond]]
       ELSE [allowed |-> TRUE,
             bucket |-> [present |-> TRUE, window_start |-> window_start,
                         count |-> current_count + 1],
             ret |-> [allowed |-> TRUE, current_count |-> current_count + 1,
                      limit |-> rpm, remaining |-> rpm - current_count - 1]]

\* LeakyBucketRateLimiter.is_allowed on the bucket of one key
LeakyBucketIsAllowed(bucket, limit, t) ==
    LET rpm == limit.requests_per_minute
        level0 == IF bucket.present THEN bucket.level ELSE 0
        last_leak == IF bucket.present THEN bucket.last_leak ELSE t
        time_passed == t - last_leak
        level == Larger(0, level0 - time_passed * rpm)
    IN IF level >= rpm * Scale
       THEN [allowed |-> FALSE,
             bucket |-> [present |-> TRUE, level |-> level, last_leak |-> t],
             ret |-> [allowed |-> FALSE, bucket_level |-> level,
                      capacity |-> rpm,
                      retry_after |-> ((level - rpm * Scale + Scale) * 60)
                                         \div (Scale * rpm)]]
       ELSE [allowed |-> TRUE,
             bucket |-> [present |-> TRUE, level |-> level + Scale,
                         last_leak |-> t],
             ret |-> [allowed |-> TRUE, bucket_level |-> level + Scale,
                      capacity |-> rpm,
                      remaining |-> (rpm * Scale - level - Scale) \div Scale]]

\* the limiter's answer to one more call on key k, and the state it leaves
LimiterIsAllowed(k) ==
    CASE strategy = TOKEN_BUCKET ->
           _memory_token_bucket(memory_buckets[k], rate_limit, now)
      [] strategy = FIXED_WINDOW ->
           FixedWindowIsAllowed(windows[k], rate_limit, now)
      [] strategy = LEAKY_BUCKET ->
           LeakyBucketIsAllowed(buckets[k], rate_limit, now)
      [] OTHER ->
           LET r == is_allowed(UsageState(k), rate_limit, now)
           IN [allowed |-> r.allowed, bucket |-> r.state, ret |-> r.ret]

\* the state of key k becomes b in the limiter of the strategy
StoreLimiter(k, b) ==
    /\ memory_buckets' = IF strategy = TOKEN_BUCKET
                         THEN [memory_buckets EXCEPT ![k] = b]
                         ELSE memory_buckets
    /\ windows' = IF strategy = FIXED_WINDOW
                  THEN [windows EXCEPT ![k] = b] ELSE windows
    /\ buckets' = IF strategy = LEAKY_BUCKET
                  THEN [buckets EXCEPT ![k] = b] ELSE buckets
    /\ IF strategy \in {TOKEN_BUCKET, FIXED_WINDOW, LEAKY_BUCKET}
       THEN UNCHANGED limiterVars
       ELSE Store(k, b)

\* RateLimiterManager.check_rate_limit(key, limit) -> self.limiter.is_allowed;
\* a run makes at most two calls beyond the limit between two resets
CheckRateLimit(k) ==
    /\ streak[k].n <= rate_limit.requests_per_minute + 1
    /\ \E r \in {LimiterIsAllowed(k)} :
       /\ StoreLimiter(k, r.bucket)
       /\ result' = [op |-> "check_rate_limit", key |-> k, t |-> now,
                     ret |-> r.ret]
       /\ admitted' = IF r.allowed
                      THEN [admitted EXCEPT ![k] = Append(@, now)]
                      ELSE admitted
    /\ streak' = [streak EXCEPT ![k] =
                    [n |-> @.n + 1, t |-> IF @.n = 0 THEN now ELSE @.t]]
    /\ UNCHANGED <<routerVars, wrrVars, strategy, now, advances, rate_limit, api_key,
                   taskVars>>

\* RateLimiterManager.reset_provider_limit(key) -> self.limiter.reset_limit:
\* the key's entry is deleted
ResetProviderLimit(k) ==
    /\ StoreLimiter(k, IF strategy = SLIDING_WINDOW
                       THEN reset_limit(UsageState(k)) ELSE NoBucket)
    /\ result' = [op |-> "reset_limit", key |-> k, t |-> now,
                  ret |-> [ok |-> TRUE]]
    /\ streak' = [streak EXCEPT ![k] = NoStreak]
    /\ admitted' = [admitted EXCEPT ![k] = <<>>]
    /\ UNCHANGED <<routerVars, wrrVars, strategy, now, advances, rate_limit, api_key,
                   taskVars>>

\* the limits of the strategies: requests per minute only
StrategyLimits ==
    { RateLimit(l, None, None, None, None, None, None, None) : l \in 1..MaxLimit }

StrategyKeys == { KeyOf(Providers[1], "default") }

\* RateLimiterManager(strategy)
InitStrategies ==
    /\ now \in StartTimes
    /\ advances = 0
    /\ rate_limit \in StrategyLimits
    /\ api_key \in ApiKeys
    /\ InitLimiters
    /\ strategy \in RateLimitStrategy
    /\ tenacity = FALSE
    /\ InitRouting

NextStrategies ==
    \/ \E d \in Advances : Tick(d)
    \/ \E k \in StrategyKeys : CheckRateLimit(k)
    \/ \E k \in StrategyKeys : ResetProviderLimit(k)

SpecStrategies == InitStrategies /\ [][NextStrategies]_vars

-----------------------------------------------------------------------------
(* Part 4: the weighted round robin balancer                               *)
(* (app/services/load_balancer.py, WeightedRoundRobinBalancer).  Weights   *)
(* are floats; the model keeps them in millionths, a product with 1.1, 0.9 *)
(* or 0.8 being cut to the millionth.                                      *)

MaxSelections == 60

\* the weight 1.0
Unit == 10 ^ 6

\* update_provider_stats, a mutation: the weight never changes
update_provider_stats_flat(w, success, latency) == IF w = None THEN Unit ELSE w

\* WeightedRoundRobinBalancer.update_provider_stats: the provider's weight
\* after a call that took latency ticks; w = None is a provider without entry
update_provider_stats(w, success, latency) ==
    LET w0 == IF w = None THEN Unit ELSE w
    IN IF success
       THEN IF latency < Ticks(1)
            THEN Smaller(5 * Unit, (w0 * 11) \div 10)
            ELSE IF latency > Ticks(5)
            THEN Larger(Unit \div 10, (w0 * 9) \div 10)
            ELSE w0
       ELSE Larger(Unit \div 10, (w0 * 8) \div 10)

\* max(available_providers, key=...): the first of the greatest
FirstMax(available, cw) ==
    available[CHOOSE i \in 1..Len(available) :
                 /\ \A j \in 1..Len(available) : cw[available[j]] <= cw[available[i]]
                 /\ \A j \in 1..(i - 1) : cw[available[j]] < cw[available[i]]]

InList(available, p) == \E i \in 1..Len(available) : available[i] = p

\* select_provider after get_available_providers returned a non-empty list:
\* the weights, the credits and the provider returned
select_provider(w, cw, available) ==
    LET w1 == [p \in ProviderSet |->
                 IF InList(available, p) /\ w[p] = None THEN Unit ELSE w[p]]
        cw1 == [p \in ProviderSet |->
                 IF InList(available, p) /\ w[p] = None THEN Unit ELSE cw[p]]
        seen == [p \in ProviderSet |-> IF cw1[p] = None THEN 0 ELSE cw1[p]]
        best_provider == FirstMax(available, seen)
    IN [weights |-> w1,
        current_weights |-> [p \in ProviderSet |->
            IF ~InList(available, p) THEN cw1[p]
            ELSE IF p = best_provider THEN cw1[p] - Unit + w1[p]
            ELSE cw1[p] + w1[p]],
        best_provider |-> best_provider]

\* WeightedRoundRobinBalancer.select_provider, the availability checks of
\* get_available_providers included
SelectWeighted ==
    /\ lock = NoTask
    /\ pending = NoProvider
    /\ selections[Providers[1]] + selections[Providers[2]] < MaxSelections
    /\ \E r \in {[p \in ProviderSet |->
                   check_availability(p, "default",
                                      UsageState(KeyOf(p, "default")), now)]} :
       /\ StoreChecks(r)
       /\ \E available \in {SelectSeq(Providers, LAMBDA p : r[p].available)} :
          IF available = <<>>
          THEN /\ result' = [op |-> "select_provider", t |-> now,
                             ret |-> [provider |-> NoProvider]]
               /\ UNCHANGED <<weights, current_weights, selections,
                              passed_over, pending>>
          ELSE \E sel \in {select_provider(weights, current_weights, available)} :
               /\ weights' = sel.weights
               /\ current_weights' = sel.current_weights
               /\ pending' = sel.best_provider
               /\ selections' = [selections EXCEPT ![sel.best_provider] = @ + 1]
               /\ passed_over' = [p \in ProviderSet |->
                     IF p = sel.best_provider THEN 0
                     ELSE IF InList(available, p) THEN passed_over[p] + 1
                     ELSE passed_over[p]]
               /\ result' = [op |-> "select_provider", t |-> now,
                             ret |-> [provider |-> sel.best_provider]]
    /\ UNCHANGED <<routerVars, strategyVars, profile, otherBalancers, now,
                   advances, rate_limit, api_key, taskVars>>

\* how long a call takes, in ticks: under 1 s ("fast", and the calls that
\* fail), exactly 1 s, exactly 5 s, or over 5 s ("slow")
Latencies(kind) ==
    CASE kind \in {"fast", "failing"} -> {Ticks(1) - 1}
      [] kind = "second" -> {Ticks(1)}
      [] kind = "five" -> {Ticks(5)}
      [] kind = "slow" -> {Ticks(5) + 1, Ticks(6)}

\* the call to the selected provider ends after its latency, in success
\* unless the provider is a failing one, and
\* update_provider_stats(provider, success, latency) is fed
CompleteWeighted ==
    /\ pending # NoProvider
    /\ \E latency \in Latencies(profile[pending]) :
       /\ now' = now + latency
       /\ weights' = [weights EXCEPT ![pending] =
                         update_provider_stats(@, profile[pending] # "failing",
                                               latency)]
       /\ result' = [op |-> "update_provider_stats", t |-> now + latency,
                     ret |-> [provider |-> pending, latency |-> latency,
                              success |-> profile[pending] # "failing"]]
    /\ pending' = NoProvider
    /\ UNCHANGED <<routerVars, strategyVars, profile, otherBalancers,
                   current_weights, selections, passed_over, advances, rate_limit, api_key, limiterVars,
                   admitted, taskVars>>

\* a limit no run of the balancer reaches
WeightedLimit ==
    RateLimit(MaxSelections + 1, None, None, None, None, None, None, None)

\* two providers have their API key; one is fast and the other slow
WeightedApiKeys ==
    { [p \in ProviderSet |-> IF p = Providers[3] THEN "" ELSE "sk"] }
Profiles ==
    { [p \in ProviderSet |-> IF p = a THEN "fast" ELSE "slow"] :
         a \in {Providers[1], Providers[2]} }

InitWeighted ==
    /\ now \in StartTimes
    /\ advances = 0
    /\ rate_limit = WeightedLimit
    /\ api_key \in WeightedApiKeys
    /\ InitUsage
    /\ tenacity = FALSE
    /\ InitRouted
    /\ profile \in Profiles

NextWeighted == SelectWeighted \/ CompleteWeighted

SpecWeighted == InitWeighted /\ [][NextWeighted]_vars

\* the two providers in every pairing of fast, failing and unhurried (1 s,
\* 5 s) calls, and the pairings of a fast and a slow one
MixedProfiles ==
    Profiles \cup
    { [p \in ProviderSet |-> IF p = Providers[1] THEN a ELSE b] :
         a, b \in {"fast", "second", "five", "failing"} }

InitWeights ==
    /\ now \in StartTimes
    /\ advances = 0
    /\ rate_limit = WeightedLimit
    /\ api_key \in WeightedApiKeys
    /\ InitUsage
    /\ tenacity = FALSE
    /\ InitRouted
    /\ profile \in MixedProfiles

SpecWeights == InitWeights /\ [][NextWeighted]_vars

-----------------------------------------------------------------------------
(* Properties of the sliding-window limiter *)

Limits(name) ==
    CASE name = "requests_per_minute" -> rate_limit.requests_per_minute
      [] name = "requests_per_hour" -> rate_limit.requests_per_hour
      [] name = "requests_per_day" -> rate_limit.requests_per_day
      [] name = "requests_per_month" -> rate_limit.requests_per_month
      [] name = "tokens_per_minute" -> rate_limit.tokens_per_minute
      [] name = "tokens_per_hour" -> rate_limit.tokens_per_hour
      [] name = "tokens_per_day" -> rate_limit.tokens_per_day
      [] name = "tokens_per_month" -> rate_limit.tokens_per_month

\* the number of admits of key k recorded in `admitted` that satisfy P
CountAdmitted(k, P(_)) ==
    Cardinality({i \in 1..Len(admitted[k]) : P(admitted[k][i])})

AdmittedInLast(k, t, seconds) ==
    CountAdmitted(k, LAMBDA ts : ts >= t - Ticks(seconds) /\ ts <= t)
AdmittedInDayOf(k, t) ==
    CountAdmitted(k, LAMBDA ts : DayIndex(ts) = DayIndex(t))
AdmittedInMonthOf(k, t) ==
    CountAdmitted(k, LAMBDA ts : MonthIndex(ts) = MonthIndex(t))

OnlyMinuteConfigured ==
    \A name \in {"requests_per_hour", "requests_per_day", "requests_per_month",
                 "tokens_per_minute", "tokens_per_hour", "tokens_per_day",
                 "tokens_per_month"} : ~Configured(Limits(name))

IsAdmitResult == result.op = "is_allowed"

\* a step that is a call of is_allowed / get_rate_limit_status /
\* record_token_usage on key k
AdmitStep(k) == result'.op = "is_allowed" /\ now' = now /\ IsAllowed(k)
StatusStep(k) ==
    result'.op = "get_rate_limit_status" /\ now' = now /\ GetRateLimitStatus(k)
RecordTokensStep(k, n) ==
    result'.op = "record_token_usage" /\ now' = now /\ RecordTokenUsage(k, n)

IsDenial == IsAdmitResult /\ ~result.ret.allowed

\* C1: for every key and every configured request dimension, the number of
\* admitted requests with a timestamp in the trailing window [now-60, now]
\* (3600 s for the hour, the current calendar day / month for day / month)
\* never exceeds the limit of the dimension.
C1_AdmittedWithinLimits ==
    \A k \in Keys :
        /\ AdmittedInLast(k, now, MinuteWindow) <= rate_limit.requests_per_minute
        /\ Configured(rate_limit.requests_per_hour) =>
              AdmittedInLast(k, now, HourWindow) <= rate_limit.requests_per_hour
        /\ Configured(rate_limit.requests_per_day) =>
              AdmittedInDayOf(k, now) <= rate_limit.requests_per_day
        /\ Configured(rate_limit.requests_per_month) =>
              AdmittedInMonthOf(k, now) <= rate_limit.requests_per_month

\* C1 witness: the minute window is full although more requests than the
\* limit were admitted in all: earlier ones have slid out of the window.
C1_Witness ==
    \E k \in Keys :
        /\ AdmittedInLast(k, now, MinuteWindow) = rate_limit.requests_per_minute
        /\ Len(admitted[k]) > rate_limit.requests_per_minute
        /\ IsAdmitResult /\ result.key = k /\ result.t = now

\* the oldest admitted timestamp of key k still inside the minute window at t
OldestInMinute(k, t) ==
    LET inside == {admitted[k][i] : i \in 1..Len(admitted[k])}
                  \cap {ts \in (t - Ticks(MinuteWindow))..t : TRUE}
    IN CHOOSE ts \in inside : \A other \in inside : ts <= other

\* what C2 says of a denial apart from retry_after
C2_DenialReport ==
    /\ AdmittedInLast(result.key, result.t, MinuteWindow)
          = rate_limit.requests_per_minute
    /\ result.ret.reason = Reason("requests_per_minute")
    /\ result.ret.failed_checks = <<"requests_per_minute">>
    /\ result.ret.current_count = rate_limit.requests_per_minute
    /\ result.ret.limit = rate_limit.requests_per_minute

\* C2 as stated: with only requests_per_minute = L configured, an admit is
\* denied only when L admits lie in the same 60-second window, and the denial
\* reports requests_per_minute, current_count = L, limit = L and a
\* retry_after equal to oldest + 60 - now.
C2_RetryAfterExact ==
    (OnlyMinuteConfigured /\ IsDenial) =>
        /\ C2_DenialReport
        /\ Ticks(result.ret.retry_after)
              = OldestInMinute(result.key, result.t) + Ticks(MinuteWindow) - result.t

\* C2 amended: as above, but retry_after is oldest + 60 - now truncated to
\* whole seconds: retry_after <= oldest + 60 - now < retry_after + 1.
C2_RetryAfterTruncated ==
    (OnlyMinuteConfigured /\ IsDenial) =>
        /\ C2_DenialReport
        /\ LET remaining == OldestInMinute(result.key, result.t)
                            + Ticks(MinuteWindow) - result.t
           IN /\ Ticks(result.ret.retry_after) <= remaining
              /\ remaining < Ticks(result.ret.retry_after + 1)

\* C2 witness: a denial of the third admit, a fraction of a second after the
\* oldest recorded admit
C2_Witness ==
    /\ OnlyMinuteConfigured /\ IsDenial /\ result.t = now
    /\ Ticks(result.ret.retry_after)
          < OldestInMinute(result.key, result.t) + Ticks(MinuteWindow) - result.t

\* C3: once an admit on a key is denied on dimension D, a further admit on
\* that key with no time passing and no reset is denied on D as well, and D's
\* count has not dropped.
C3_DenialIsMonotonic ==
    [][\A k \in Keys :
          (IsDenial /\ result.key = k /\ result.t = now /\ AdmitStep(k)) =>
              /\ ~result'.ret.allowed
              /\ result'.ret.reason = result.ret.reason
              /\ \A i \in 1..Len(result.ret.failed_checks) :
                    \E j \in 1..Len(result'.ret.failed_checks) :
                        result'.ret.failed_checks[j] = result.ret.failed_checks[i]
              /\ Len(request_windows'[k].minute) >= Len(request_windows[k].minute)
              /\ daily_counters'[k].requests >= daily_counters[k].requests
              /\ monthly_counters'[k].requests >= monthly_counters[k].requests]_vars

\* C3 witness: a denial at the present instant: the next admit comes with no
\* time passed
C3_Witness ==
    /\ IsDenial /\ result.t = now
    /\ Len(request_windows[result.key].minute) = rate_limit.requests_per_minute

\* the request-per-day counts a call reported
SeenDayCounts(res) ==
    IF res.op = "is_allowed" /\ res.ret.allowed
    THEN {res.ret.rate_limit_status[i].info.current_count :
             i \in {j \in 1..Len(res.ret.rate_limit_status) :
                       res.ret.rate_limit_status[j].name = "requests_per_day"}}
    ELSE IF res.op = "is_allowed"
    THEN IF res.ret.reason = Reason("requests_per_day") THEN {res.ret.current_count} ELSE {}
    ELSE {res.ret.status[i].current :
             i \in {j \in 1..Len(res.ret.status) :
                       res.ret.status[j].name = "requests_per_day"}}

\* the entries of a queue that lie inside the window ending at t
InsideWindow(queue, t, seconds) ==
    SelectSeq(queue, LAMBDA e : e.timestamp >= t - Ticks(seconds))

IsPrefix(a, b) == Len(a) <= Len(b) /\ \A i \in 1..Len(a) : a[i] = b[i]
IsSuffix(a, b) ==
    Len(a) <= Len(b) /\ \A i \in 1..Len(a) : a[i] = b[Len(b) - Len(a) + i]

Recorded(res) == IF res.op = "is_allowed" /\ res.ret.allowed THEN 1 ELSE 0

\* C4: the first admit / status of a key after a day boundary sees the day
\* count 0 and resets the day accumulator only: within the same month the
\* month accumulator keeps its value, when the month index changed too it is
\* reset as well; the entries of the minute and hour queues that are inside
\* their windows are kept.
C4_RolloverResetsOnlyCrossed ==
    [][\A k \in Keys :
          (last_reset[k].daily # DayIndex(now)
              /\ (AdmitStep(k) \/ StatusStep(k))) =>
              /\ SeenDayCounts(result') \subseteq {0}
              /\ daily_counters'[k].requests = Recorded(result')
              /\ last_reset[k].monthly = MonthIndex(now) =>
                    /\ monthly_counters'[k].requests
                          = monthly_counters[k].requests + Recorded(result')
                    /\ monthly_counters'[k].tokens = monthly_counters[k].tokens
              /\ last_reset[k].monthly # MonthIndex(now) =>
                    /\ monthly_counters'[k].requests = Recorded(result')
                    /\ monthly_counters'[k].tokens = 0
              /\ IsPrefix(InsideWindow(request_windows[k].minute, now, MinuteWindow),
                          request_windows'[k].minute)
              /\ IsPrefix(InsideWindow(request_windows[k].hour, now, HourWindow),
                          request_windows'[k].hour)]_vars

\* C4 witness: an admit or status just made in a new day of the same month,
\* after requests were admitted the day before: the day accumulator restarted,
\* the month accumulator holds them all
C4_Witness ==
    \E k \in Keys :
        /\ result.op \in {"is_allowed", "get_rate_limit_status"}
        /\ result.key = k /\ result.t = now
        /\ Len(admitted[k]) >= 2
        /\ DayIndex(admitted[k][1]) < DayIndex(now)
        /\ MonthIndex(admitted[k][1]) = MonthIndex(now)
        /\ daily_counters[k].requests = AdmittedInDayOf(k, now)
        /\ daily_counters[k].requests < monthly_counters[k].requests
        /\ monthly_counters[k].requests = Len(admitted[k])

\* the accumulators of key k as a call at the present instant finds them
\* after its calendar check
DayBase(k) ==
    IF last_reset[k].daily # DayIndex(now) THEN ZeroCounters ELSE daily_counters[k]
MonthBase(k) ==
    IF last_reset[k].monthly # MonthIndex(now) THEN ZeroCounters ELSE monthly_counters[k]

AppendsOne(before, after, seconds) ==
    /\ after # <<>>
    /\ after[Len(after)] = Entry(now, 0)
    /\ \/ SubSeq(after, 1, Len(after) - 1) = InsideWindow(before, now, seconds)
       \/ SubSeq(after, 1, Len(after) - 1) = before

\* C5 as stated: an allowed admit appends exactly one timestamp to the request
\* queues and adds exactly 1 to the day and month request accumulators; a
\* denied admit appends nothing and leaves the day / month request and token
\* accumulators unchanged.
C5_RecordedIffAllowed ==
    [][\A k \in Keys : AdmitStep(k) =>
          IF result'.ret.allowed
          THEN /\ AppendsOne(request_windows[k].minute, request_windows'[k].minute,
                             MinuteWindow)
               /\ AppendsOne(request_windows[k].hour, request_windows'[k].hour,
                             HourWindow)
               /\ daily_counters'[k].requests = daily_counters[k].requests + 1
               /\ monthly_counters'[k].requests = monthly_counters[k].requests + 1
          ELSE /\ IsSuffix(request_windows'[k].minute, request_windows[k].minute)
               /\ IsSuffix(request_windows'[k].hour, request_windows[k].hour)
               /\ IsSuffix(token_windows'[k].minute, token_windows[k].minute)
               /\ IsSuffix(token_windows'[k].hour, token_windows[k].hour)
               /\ daily_counters'[k] = daily_counters[k]
               /\ monthly_counters'[k] = monthly_counters[k]]_vars

\* C5 amended: the day / month accumulators are first reset to 0 when the
\* admit is the first admit or status call of the key, or the first since a
\* day / month boundary; on top of that an allowed
\* admit appends exactly one timestamp and adds exactly 1 request, a denied
\* admit appends nothing and adds nothing.
C5_RecordedIffAllowedAfterRollover ==
    [][\A k \in Keys : AdmitStep(k) =>
          IF result'.ret.allowed
          THEN /\ AppendsOne(request_windows[k].minute, request_windows'[k].minute,
                             MinuteWindow)
               /\ AppendsOne(request_windows[k].hour, request_windows'[k].hour,
                             HourWindow)
               /\ IsSuffix(token_windows'[k].minute, token_windows[k].minute)
               /\ IsSuffix(token_windows'[k].hour, token_windows[k].hour)
               /\ daily_counters'[k] = [DayBase(k) EXCEPT !.requests = @ + 1]
               /\ monthly_counters'[k] = [MonthBase(k) EXCEPT !.requests = @ + 1]
               /\ admitted'[k] = Append(admitted[k], now)
          ELSE /\ IsSuffix(request_windows'[k].minute, request_windows[k].minute)
               /\ IsSuffix(request_windows'[k].hour, request_windows[k].hour)
               /\ IsSuffix(token_windows'[k].minute, token_windows[k].minute)
               /\ IsSuffix(token_windows'[k].hour, token_windows[k].hour)
               /\ daily_counters'[k] = DayBase(k)
               /\ monthly_counters'[k] = MonthBase(k)
               /\ admitted'[k] = admitted[k]]_vars

\* C5 witness: a denied admit that was the first call of its key in a new
\* day, leaving the day accumulator reset although requests are on record
C5_Witness ==
    \E k \in Keys :
        /\ IsDenial /\ result.key = k /\ result.t = now
        /\ daily_counters[k].requests = 0
        /\ Len(request_windows[k].minute) > 0

\* the verdicts of the four request dimensions on a usage state
RequestVerdicts(s, t) ==
    <<_check_requests_per_minute(s, rate_limit, t).info.allowed,
      Configured(rate_limit.requests_per_hour) =>
          _check_requests_per_hour(s, rate_limit, t).info.allowed,
      Configured(rate_limit.requests_per_day) =>
          _check_requests_per_day(s, rate_limit, t).allowed,
      Configured(rate_limit.requests_per_month) =>
          _check_requests_per_month(s, rate_limit, t).allowed>>

\* C6: record_token_usage(key, n) appends (now, n) to the token queues of the
\* key and adds n to its day and month token accumulators; the request queues
\* and the request accumulators of the key stay as they are, so the verdict of
\* every request dimension is the same before and after.
C6_TokenRecordingLeavesRequests ==
    [][\A k \in Keys, n \in TokenAmounts : RecordTokensStep(k, n) =>
          /\ token_windows'[k].minute = Append(token_windows[k].minute, Entry(now, n))
          /\ token_windows'[k].hour = Append(token_windows[k].hour, Entry(now, n))
          /\ daily_counters'[k].tokens = daily_counters[k].tokens + n
          /\ monthly_counters'[k].tokens = monthly_counters[k].tokens + n
          /\ request_windows'[k] = request_windows[k]
          /\ daily_counters'[k].requests = daily_counters[k].requests
          /\ monthly_counters'[k].requests = monthly_counters[k].requests
          /\ admitted'[k] = admitted[k]
          /\ RequestVerdicts(UsageState(k)', now) = RequestVerdicts(UsageState(k), now)
      ]_vars

\* C6 witness: tokens were just recorded for a key that has admitted requests
\* on record
C6_Witness ==
    \E k \in Keys :
        /\ result.op = "record_token_usage" /\ result.key = k /\ result.t = now
        /\ request_windows[k].minute # <<>>
        /\ daily_counters[k].requests > 0
        /\ daily_counters[k].tokens = result.ret.tokens_used

\* the fixed evaluation order of the dimensions
DimensionOrder ==
    <<"requests_per_minute", "requests_per_hour", "requests_per_day",
      "requests_per_month", "tokens_per_minute", "tokens_per_hour",
      "tokens_per_day", "tokens_per_month">>

\* the count of a dimension over the usage state s at time t, read off the
\* state: entries inside the window, or the calendar accumulator
DimensionCount(name, s, t) ==
    CASE name = "requests_per_minute" ->
            Len(InsideWindow(s.rw.minute, t, MinuteWindow))
      [] name = "requests_per_hour" -> Len(InsideWindow(s.rw.hour, t, HourWindow))
      [] name = "requests_per_day" -> s.dc.requests
      [] name = "requests_per_month" -> s.mc.requests
      [] name = "tokens_per_minute" ->
            SumTokens(InsideWindow(s.tw.minute, t, MinuteWindow))
      [] name = "tokens_per_hour" ->
            SumTokens(InsideWindow(s.tw.hour, t, HourWindow))
      [] name = "tokens_per_day" -> s.dc.tokens
      [] name = "tokens_per_month" -> s.mc.tokens

IsRequestDimension(name) ==
    name \in {"requests_per_minute", "requests_per_hour", "requests_per_day",
              "requests_per_month"}

DimensionExceeded(name, s, t) ==
    /\ name = "requests_per_minute" \/ Configured(Limits(name))
    /\ IF IsRequestDimension(name)
       THEN DimensionCount(name, s, t) >= Limits(name)
       ELSE DimensionCount(name, s, t) > Limits(name)

\* when the dimension is free again, and the seconds until then as reported
DimensionReset(name, s, t) ==
    CASE name \in {"requests_per_minute", "tokens_per_minute", "requests_per_hour",
                   "tokens_per_hour"} -> t
      [] name \in {"requests_per_day", "tokens_per_day"} -> NextDay(t)
      [] name \in {"requests_per_month", "tokens_per_month"} -> NextMonth(t)

FirstExceeded(s, t) ==
    LET i == CHOOSE i \in 1..Len(DimensionOrder) :
                /\ DimensionExceeded(DimensionOrder[i], s, t)
                /\ \A j \in 1..(i - 1) : ~DimensionExceeded(DimensionOrder[j], s, t)
    IN DimensionOrder[i]

ReportedCount(ret) ==
    IF IsRequestDimension(ret.failed_checks[1]) THEN ret.current_count ELSE ret.current_tokens

Sorted(queue) ==
    \A i, j \in 1..Len(queue) : i <= j => queue[i].timestamp <= queue[j].timestamp

Within(queue, t, seconds) ==
    \A i \in 1..Len(queue) :
        queue[i].timestamp >= t - Ticks(seconds) /\ queue[i].timestamp <= t

\* C9 as stated: in every reachable state every minute and hour request queue
\* holds only timestamps within [now - window, now], in non-decreasing order.
C9_QueuesAlwaysWithinWindow ==
    \A k \in Keys :
        /\ Sorted(request_windows[k].minute) /\ Sorted(request_windows[k].hour)
        /\ Within(request_windows[k].minute, now, MinuteWindow)
        /\ Within(request_windows[k].hour, now, HourWindow)

\* C8: admission-then-record is atomic per key under every interleaving of
\* concurrent admit, record_token_usage and reset calls: a task that passed
\* the checks records into the very usage state it checked (no two admits
\* observe the same count and both record), so no request queue or
\* accumulator ever holds more requests than its limit.
C8_AdmitThenRecordIsAtomic ==
    /\ \A t \in Tasks :
          pc[t] = "record" =>
              /\ lock = t
              /\ UsageState(task[t].key) = task[t].seen
              /\ \A u \in Tasks \ {t} : pc[u] \in {"idle", "acquire"}
    /\ \A k \in Keys :
          /\ Len(request_windows[k].minute) <= rate_limit.requests_per_minute
          /\ Configured(rate_limit.requests_per_hour) =>
                Len(request_windows[k].hour) <= rate_limit.requests_per_hour
          /\ Configured(rate_limit.requests_per_day) =>
                daily_counters[k].requests <= rate_limit.requests_per_day
          /\ Configured(rate_limit.requests_per_month) =>
                monthly_counters[k].requests <= rate_limit.requests_per_month
          /\ AdmittedInLast(k, now, MinuteWindow) <= rate_limit.requests_per_minute

\* C8 witness: a task has passed the checks at count L-1 and is about to
\* record while the other task waits for the lock with an admit on the same
\* key
C8_Witness ==
    \E t, u \in Tasks :
        /\ t # u
        /\ pc[t] = "record" /\ pc[u] = "acquire"
        /\ task[u].op = "is_allowed" /\ task[u].key = task[t].key
        /\ Len(request_windows[task[t].key].minute)
              = rate_limit.requests_per_minute - 1

\* C10 as stated: check_availability, called directly or through
\* get_available_providers, consumes no quota: no request queue and no day /
\* month request accumulator of the checked key grows.
C10_AvailabilityCheckIsDryRun ==
    [][((\E p \in ProviderSet : CheckAvailability(p)) \/ GetAvailableProviders) =>
          \A k \in Keys :
              /\ Len(request_windows'[k].minute) <= Len(request_windows[k].minute)
              /\ Len(request_windows'[k].hour) <= Len(request_windows[k].hour)
              /\ daily_counters'[k].requests <= daily_counters[k].requests
              /\ monthly_counters'[k].requests <= monthly_counters[k].requests
      ]_vars

-----------------------------------------------------------------------------
(* Properties of routing *)

\* the number of requests the queue holds that were recorded at time t
RecordedAt(window, t) ==
    Cardinality({i \in 1..Len(window) : window[i].timestamp = t})

\* the key of the call's provider and effective model
CallKey(t) == KeyOf(route[t].provider_name, EffectiveModel(route[t].request))

\* this step records one request on key k, now
RecordsOneRequest(k) ==
    /\ RecordedAt(request_windows'[k].minute, now)
          = RecordedAt(request_windows[k].minute, now) + 1
    /\ RecordedAt(request_windows'[k].hour, now)
          = RecordedAt(request_windows[k].hour, now) + 1
    /\ daily_counters'[k].requests >= 1

\* this step records nothing on key k
RecordsNoRequest(k) ==
    /\ RecordedAt(request_windows'[k].minute, now)
          = RecordedAt(request_windows[k].minute, now)
    /\ RecordedAt(request_windows'[k].hour, now)
          = RecordedAt(request_windows[k].hour, now)

\* the call t is in client.generate_completion and runs it up to the HTTP
\* request or to its failure
GenerateStep(t) ==
    /\ route[t].pc = "generate"
    /\ route'[t].pc # "generate"

LogKinds(t) == {route[t].log[i].kind : i \in 1..Len(route[t].log)}

\* C11: every HTTP request a client sends is preceded, in the same try of
\* generate_completion, by an allowed admit on the key of the provider and
\* the effective model that records one request there; a try whose provider
\* has no API key or whose admit is denied sends nothing, records nothing
\* and ends as a failure of the client.
C11_AdmitBeforeOutbound ==
    [][\A t \in RouteTasks :
          /\ (route[t].pc # "posting" /\ route'[t].pc = "posting")
                => GenerateStep(t)
          /\ GenerateStep(t) =>
                \/ /\ route'[t].pc = "posting"
                   /\ api_key[route[t].provider_name] # ""
                   /\ RecordsOneRequest(CallKey(t))
                   /\ client_stats' = client_stats
                \/ /\ route'[t].pc \in {"sleeping", "retry_wait", "loop"}
                   /\ RecordsNoRequest(CallKey(t))
                   /\ client_stats'[route[t].provider_name].failed_requests
                        = client_stats[route[t].provider_name].failed_requests + 1
                   /\ client_stats'[route[t].provider_name].successful_requests
                        = client_stats[route[t].provider_name].successful_requests
    ]_vars

\* a call whose admit was denied at call time, after requests it did send
C11_Witness ==
    \E t \in RouteTasks :
        /\ route[t].pc # "idle"
        /\ {"post", "deny"} \subseteq LogKinds(t)

\* the entries of kind `kind` in the log of call t
LogOf(t, kind) ==
    IF route[t].pc = "idle" THEN {}
    ELSE {route[t].log[i] : i \in {j \in 1..Len(route[t].log) :
                                      route[t].log[j].kind = kind}}

\* the circuit of provider p is open at time t: a dispatch to p failed less
\* than circuit_breaker_timeout seconds ago and no call to p succeeded since
CircuitOpen(p, t) ==
    /\ last_failure[p] # None
    /\ t - last_failure[p] < Ticks(circuit_breaker_timeout)

LogCount(t, kind) ==
    Cardinality({j \in 1..Len(route[t].log) : route[t].log[j].kind = kind})

\* the last entry of kind `kind` in the log of call t
LastLogged(t, kind) ==
    route[t].log[CHOOSE j \in 1..Len(route[t].log) :
                    /\ route[t].log[j].kind = kind
                    /\ \A i \in j + 1..Len(route[t].log) :
                          route[t].log[i].kind # kind]

\* call t has ended, every provider has its API key, every selection of the
\* call found providers available and every call to a provider failed
EndedAllFailing(t) ==
    /\ route[t].pc = "done"
    /\ \A p \in ProviderSet : api_key[p] # ""
    /\ \A j \in 1..Len(route[t].log) :
          /\ route[t].log[j].kind = "select" => route[t].log[j].provider # NoProvider
          /\ route[t].log[j].kind # "success"

\* C13, as stated: with three available providers that always fail, one
\* route_request makes exactly three dispatch attempts.
C13_ExactlyThreeDispatches ==
    \A t \in RouteTasks : EndedAllFailing(t) => LogCount(t, "dispatch") = 3

\* C13, amended: with three available providers that always fail, one
\* route_request makes exactly three selection attempts and at most three
\* dispatch attempts (at least one; an attempt whose selection falls on a
\* provider with an open circuit is spent without a dispatch), and then
\* raises "All providers failed" bundling the last underlying failure.
C13_AtMostThreeDispatches ==
    \A t \in RouteTasks : EndedAllFailing(t) =>
        /\ LogCount(t, "select") = 3
        /\ LogCount(t, "dispatch") \in 1..3
        /\ LogCount(t, "dispatch") + LogCount(t, "skip") = 3
        /\ LogCount(t, "failure") = LogCount(t, "dispatch")
        /\ route[t].outcome.kind = "raised"
        /\ route[t].outcome.message = "All providers failed"
        /\ route[t].outcome.last_error.provider = LastLogged(t, "failure").provider
        /\ route[t].outcome.last_error.cause = LastLogged(t, "failure").info

\* a call that ended after a dispatch, a skip of the provider whose circuit
\* the failure had opened, and a last dispatch to another provider
C13_Witness ==
    \E t \in RouteTasks :
        /\ EndedAllFailing(t)
        /\ LogCount(t, "dispatch") = 2
        /\ LogCount(t, "skip") = 1
        /\ LastLogged(t, "failure").provider # route[t].log[1].provider

\* the HTTP request of call t is answered with `outcome` in this step
ResponseStep(t, outcome) ==
    /\ route[t].pc = "posting"
    /\ route'[t].pc # "posting"
    /\ route'[t].log[Len(route[t].log) + 1].kind = "response"
    /\ route'[t].log[Len(route[t].log) + 1].info = outcome

\* C14: when the provider answers HTTP 429, the router sees a failure that
\* says "Rate limit exceeded", the statistics of the provider count one
\* more failed request (one more request in all), the balancer counts one
\* failure and the provider's circuit is open from now for
\* circuit_breaker_timeout seconds.
C14_RateLimitedAnswerCountsOneFailure ==
    [][\A t \in RouteTasks : ResponseStep(t, "429") =>
          \E p \in {route[t].provider_name} :
             /\ client_stats'[p].failed_requests = client_stats[p].failed_requests + 1
             /\ client_stats'[p].total_requests = client_stats[p].total_requests + 1
             /\ route'[t].pc \in {"sleeping", "loop"} =>
                   /\ route'[t].last_error.cause = "Rate limit exceeded"
                   /\ provider_stats'[p].failed_requests
                        = provider_stats[p].failed_requests + 1
                   /\ _is_circuit_broken(failed_providers', p, now)
                   /\ _is_circuit_broken(failed_providers', p,
                                         now + Ticks(circuit_breaker_timeout) - 1)
                   /\ ~_is_circuit_broken(failed_providers', p,
                                          now + Ticks(circuit_breaker_timeout))
    ]_vars

\* what call t did, in order
LogKindsInOrder(t) == [j \in 1..Len(route[t].log) |-> route[t].log[j].kind]

\* call t has ended and none of its selections found a provider
EndedWithoutProvider(t) ==
    /\ route[t].pc = "done"
    /\ \A j \in 1..Len(route[t].log) :
          route[t].log[j].kind = "select" => route[t].log[j].provider = NoProvider

\* C15: a route_request whose selections find no available provider makes
\* exactly three selections, sleeps one second after the first and after
\* the second and not after the third, dispatches to no client, leaves
\* every circuit and every statistic as it was, and raises "No providers
\* available after retries".
C15_NoProviderAvailable ==
    \A t \in RouteTasks : EndedWithoutProvider(t) =>
        /\ LogKindsInOrder(t) = <<"select", "sleep", "select", "sleep", "select">>
        /\ \A j \in {2, 4} :
              /\ route[t].log[j].info = 2
              /\ route[t].log[j + 1].t >= route[t].log[j].t + Ticks(1)
        /\ route[t].outcome.kind = "raised"
        /\ route[t].outcome.message = "No providers available after retries"
        /\ \A p \in ProviderSet :
              /\ failed_providers[p] = None
              /\ client_stats[p] = NoStats
              /\ provider_stats[p] = NoStats

\* the call has ended so, two seconds or more after it began
C15_Witness ==
    \E t \in RouteTasks :
        /\ EndedWithoutProvider(t)
        /\ LogCount(t, "select") = 3
        /\ now >= route[t].log[1].t + Ticks(2)

\* the number of selections call t made before entry j of its log
AttemptAt(t, j) ==
    Cardinality({i \in 1..j : route[t].log[i].kind = "select"})

\* the entries of kind `kind` for provider p in the log of call t
LoggedFor(t, kind, p) ==
    {j \in 1..Len(route[t].log) :
        route[t].log[j].kind = kind /\ route[t].log[j].provider = p}

\* C16: route_request returns the answer of its first successful dispatch
\* and raises only after three selections; when a dispatch has failed, the
\* balancer has counted the failure and the provider's circuit carries the
\* time of the failure before anything else happens; after a failed
\* dispatch the call sleeps min(attempt * 0.5, 2.0) seconds if attempts
\* remain, and does not sleep after the last attempt.
C16_FailoverProtocol ==
    \A t \in RouteTasks : route[t].pc # "idle" =>
        /\ route[t].outcome.kind = "returned" =>
              /\ LogCount(t, "success") = 1
              /\ route[t].log[Len(route[t].log)].kind = "success"
              /\ route[t].log[Len(route[t].log)].provider = route[t].outcome.provider
              /\ LogCount(t, "failure") = LogCount(t, "dispatch") - 1
        /\ route[t].outcome.kind = "raised" => LogCount(t, "select") = 3
        /\ route[t].pc # "done" => LogCount(t, "success") = 0
        /\ \A p \in ProviderSet :
              /\ provider_stats[p].failed_requests
                    = Cardinality(LoggedFor(t, "failure", p))
              /\ (LoggedFor(t, "failure", p) # {} /\ LoggedFor(t, "success", p) = {})
                    => failed_providers[p] = LastLogged(t, "failure").t
                       \/ LastLogged(t, "failure").provider # p
              /\ \A j \in LoggedFor(t, "failure", p) :
                    failed_providers[p] = None \/ failed_providers[p] >= route[t].log[j].t
        /\ \A j \in 1..Len(route[t].log) : route[t].log[j].kind = "failure" =>
              IF AttemptAt(t, j) < 3
              THEN /\ route[t].log[j + 1].kind = "sleep"
                   /\ route[t].log[j + 1].info = AttemptAt(t, j)
                   /\ j + 2 <= Len(route[t].log) =>
                         2 * (route[t].log[j + 2].t - route[t].log[j].t)
                            >= AttemptAt(t, j) * TicksPerSecond
              ELSE j = Len(route[t].log)

\* a call that returned the answer of its third dispatch, after two
\* failures and two backoffs
C16_Witness ==
    \E t \in RouteTasks :
        /\ route[t].pc = "done"
        /\ route[t].outcome.kind = "returned"
        /\ LogCount(t, "failure") = 2
        /\ LogCount(t, "sleep") = 2

\* the requests the service has to reject: empty or blank query, max_tokens
\* outside 1..8192, temperature outside 0.0..2.0, top_p outside 0.0..1.0,
\* top_k below 1
InvalidRequest(request) ==
    \/ strip(request.query) = <<>>
    \/ request.max_tokens # None
          /\ (request.max_tokens < 1 \/ request.max_tokens > 8192)
    \/ request.temperature # None
          /\ (request.temperature < 0 \/ request.temperature > 20)
    \/ request.top_p # None /\ (request.top_p < 0 \/ request.top_p > 10)
    \/ request.top_k # None /\ request.top_k < 1

\* C17: LLMService.generate_completion rejects an invalid request before
\* any provider is contacted: the call has ended with "Invalid request
\* parameters" without a selection, an admit, a dispatch or a change of
\* statistics or circuits.
C17_InvalidRequestRejected ==
    \A t \in RouteTasks :
        (route[t].pc # "idle" /\ InvalidRequest(route[t].request)) =>
            /\ route[t].pc = "done"
            /\ route[t].outcome.kind = "raised"
            /\ route[t].outcome.message = "Invalid request parameters"
            /\ route[t].log = <<>>

\* C18: the status calls (get_rate_limit_status, get_provider_stats,
\* get_load_balancer_stats) are read-only: no key's request queue or request
\* accumulator grows, no statistic and no circuit changes, and the admit
\* that would be allowed before the call is allowed after it.
C18_StatusSurfaceIsReadOnly ==
    [][(GetProviderStats \/ GetLoadBalancerStats
          \/ \E k \in Keys : GetRateLimitStatus(k)) =>
          /\ client_stats' = client_stats
          /\ failed_providers' = failed_providers
          /\ \A k \in Keys :
                /\ RecordedAt(request_windows'[k].minute, now)
                      = RecordedAt(request_windows[k].minute, now)
                /\ daily_counters'[k].tokens <= daily_counters[k].tokens
                /\ is_allowed(UsageState(k), rate_limit, now).allowed
                      => is_allowed(UsageState(k)', rate_limit, now).allowed
      ]_vars

-----------------------------------------------------------------------------
(* Properties of the rate-limit strategies *)

\* the calls checked on key k since it was fresh all came at this instant
AtOneInstant(k) == streak[k].n = 0 \/ streak[k].t = now

\* C19: whichever of the four strategies the manager was constructed with,
\* of the calls that arrive at one instant on a fresh key with limit L it
\* admits the first L and denies call L+1, and the first call after
\* reset_limit(key) is admitted again.
C19_StrategiesInterchangeable ==
    [][\A k \in StrategyKeys :
          (/\ CheckRateLimit(k)
           /\ AtOneInstant(k)
           /\ streak[k].n <= rate_limit.requests_per_minute)
          => (result'.ret.allowed
                 <=> streak[k].n + 1 <= rate_limit.requests_per_minute)
      ]_vars

\* the token bucket has denied call L+1 of an instant, L >= 2, after a reset
\* at a later time than the start
C19_Witness ==
    \E k \in StrategyKeys :
        /\ strategy = TOKEN_BUCKET
        /\ rate_limit.requests_per_minute >= 2
        /\ advances > 0
        /\ streak[k].n = rate_limit.requests_per_minute + 1
        /\ streak[k].t = now
        /\ result.op = "check_rate_limit"
        /\ ~result.ret.allowed
        /\ memory_buckets[k].tokens = 0

-----------------------------------------------------------------------------
(* Properties of the weighted round robin balancer *)

FastProvider == CHOOSE p \in {Providers[1], Providers[2]} : profile[p] = "fast"
SlowProvider == CHOOSE p \in {Providers[1], Providers[2]} : profile[p] = "slow"
Selections == selections[FastProvider] + selections[SlowProvider]

\* C20: with a provider A whose calls always succeed in under 1 s and a
\* provider B whose calls always succeed in over 5 s, both always available,
\* and update_provider_stats fed after every selection, from about 20
\* selections on (18 and more) A was selected at least 3 times as often as B.
C20_FastProviderPreferred ==
    (pending = NoProvider /\ Selections >= 20 - 2)
        => selections[FastProvider] >= 3 * selections[SlowProvider]

\* 20 selections were made and fed, the slow provider being the first of the
\* list: it was selected 3 times, the fast provider 17 times
C20_Witness ==
    /\ pending = NoProvider
    /\ Selections = 20
    /\ SlowProvider = Providers[1]
    /\ selections[SlowProvider] = 3
    /\ selections[FastProvider] = 17
    /\ weights[FastProvider] > Unit
    /\ weights[SlowProvider] < Unit

-----------------------------------------------------------------------------
(* Properties of the limiter's keys *)

\* a step that is a call of is_allowed, record_token_usage,
\* get_rate_limit_status or reset_limit on key a: the call that has just
\* returned is one of these on a, the clock not having moved
KeyStep(a) ==
    /\ now' = now
    /\ result'.key = a
    /\ result'.op \in {"is_allowed", "record_token_usage",
                       "get_rate_limit_status", "reset_limit"}

\* C21: a call on key a leaves every queue, accumulator and last-reset
\* marker of every other key b as it was, and with it what an admit on b
\* returns.
C21_KeysAreIndependent ==
    [][\A a \in Keys, b \in Keys :
          (a # b /\ KeyStep(a)) =>
             /\ UsageState(b)' = UsageState(b)
             /\ is_allowed(UsageState(b)', rate_limit, now).ret
                   = is_allowed(UsageState(b), rate_limit, now).ret
      ]_vars

\* the first key was just reset while the second holds requests and tokens
\* and is at its limit
C21_Witness ==
    LET a == KeyOf(Providers[1], "default")
        b == KeyOf(Providers[2], "default")
    IN /\ result.op = "reset_limit"
       /\ result.key = a
       /\ UsageState(a) = FreshUsageState
       /\ Len(request_windows[b].minute) >= 2
       /\ token_windows[b].minute # <<>>
       /\ daily_counters[b].requests >= 2
       /\ ~is_allowed(UsageState(b), rate_limit, now).allowed

\* a step that is a call of reset_limit on key k
ResetStep(k) == result'.op = "reset_limit" /\ now' = now /\ ResetLimit(k)

-----------------------------------------------------------------------------
(* Properties of routing, continued *)

\* C23: a selection that returns a provider whose circuit is open spends one
\* of the 3 attempts without a dispatch and without a sleep: the skip follows
\* the selection of that provider and the next selection, if any, is made at
\* the same instant with the next attempt number; k skips leave at most
\* 3 - k dispatches; a call whose 3 selections were all skipped has nothing
\* left but to end, and ends with the terminal error without a dispatch.
C23_CircuitSkipSpendsAttempt ==
    \A t \in RouteTasks :
        route[t].pc # "idle" =>
           LET log == route[t].log
               skips == LogCount(t, "skip")
           IN /\ route[t].attempts <= 3
              /\ skips + LogCount(t, "dispatch") <= route[t].attempts
              /\ \A j \in 1..Len(log) :
                    log[j].kind = "skip" =>
                       /\ j > 1
                       /\ log[j - 1].kind = "select"
                       /\ log[j - 1].provider = log[j].provider
                       /\ log[j - 1].t = log[j].t
                       /\ j < Len(log) =>
                             /\ log[j + 1].kind = "select"
                             /\ log[j + 1].t = log[j].t
                             /\ log[j + 1].info = log[j - 1].info + 1
              /\ skips = 3 =>
                    /\ LogCount(t, "dispatch") = 0
                    /\ route[t].pc \in {"loop", "done"}
                    /\ route[t].pc = "done" =>
                          /\ route[t].outcome.kind = "raised"
                          /\ route[t].outcome.message = "All providers failed"
                          /\ route[t].outcome.last_error = NoError

\* a call has ended after three skips, and another after one failed dispatch
\* and two skips
C23_Witness ==
    \E t \in RouteTasks, u \in RouteTasks :
        /\ route[t].pc = "done"
        /\ LogCount(t, "skip") = 3
        /\ LogCount(t, "dispatch") = 0
        /\ route[u].pc = "done"
        /\ LogCount(u, "skip") = 2
        /\ LogCount(u, "dispatch") = 1

\* the entry of the dispatch that the entry f of call t's log belongs to
DispatchOf(t, f) ==
    CHOOSE d \in 1..f :
        /\ route[t].log[d].kind = "dispatch"
        /\ \A j \in d + 1..f : route[t].log[j].kind # "dispatch"

\* the entries of kinds `kinds` between the dispatch and the entry f
EntriesOf(t, f, kinds) ==
    {j \in DispatchOf(t, f)..f : route[t].log[j].kind \in kinds}

\* how a generate attempt ends without a completion: the local limiter
\* denies it or the key is missing (nothing is sent), or the answer fails
AttemptEnds == {"deny", "no_key", "response"}

\* the generate attempt that ends with entry j failed with a transient
\* network failure
Transient(t, j) ==
    route[t].log[j].kind = "response" /\ route[t].log[j].info = "timeout"

\* the failures the adapters surfaced to the router in call t
Surfaced(t) ==
    IF route[t].pc = "idle" THEN {}
    ELSE {f \in 1..Len(route[t].log) : route[t].log[f].kind = "failure"}

\* C24: with the retry library installed, a dispatch all of whose outbound
\* calls fail with a timeout or a connection error surfaces the error to the
\* router only after 3 outbound calls, whatever the kind of the adapter.
C24_TransientFailureRetried ==
    \A t \in RouteTasks : \A f \in Surfaced(t) :
        (/\ tenacity
         /\ \A j \in EntriesOf(t, f, AttemptEnds) : Transient(t, j))
        => Cardinality(EntriesOf(t, f, {"post"})) = 3

\* C25: a dispatch whose first generate attempt fails otherwise than by a
\* timeout or a connection error (an error status, HTTP 429, an answer
\* without content, a denial by the local limiter) makes exactly one
\* generate attempt and at most one outbound call, whatever the kind of the
\* adapter.
C25_NonTransientNeverRetried ==
    \A t \in RouteTasks : \A f \in Surfaced(t) :
        LET ends == EntriesOf(t, f, AttemptEnds)
            first == CHOOSE j \in ends : \A i \in ends : j <= i
        IN ~Transient(t, first) =>
              /\ Cardinality(ends) = 1
              /\ Cardinality(EntriesOf(t, f, {"post"})) <= 1

-----------------------------------------------------------------------------
(* Properties of the rate-limit strategies, continued *)

\* the wall-clock minute of instant t
MinuteOf(t) == t \div Ticks(MinuteWindow)

\* how many of the admits allowed on key k since its last reset fell into
\* the wall-clock minute m
AdmittedInMinute(k, m) ==
    Cardinality({i \in 1..Len(admitted[k]) : MinuteOf(admitted[k][i]) = m})

\* a step that is a call of check_rate_limit on key k
CheckStep(k) ==
    result'.op = "check_rate_limit" /\ now' = now /\ CheckRateLimit(k)

\* C26: under the fixed window, a key's count is reset to 0 by the first
\* call in each new wall-clock minute (the call is admitted and counted as
\* the first of the minute), and of the calls made since the key's last
\* reset at most requests_per_minute are admitted in any single wall-clock
\* minute.  (That 2 x requests_per_minute admits in less than 60 seconds are
\* reachable across a minute boundary is the state C26_Witness.)
C26_FixedWindow ==
    /\ [](strategy = FIXED_WINDOW =>
            \A k \in StrategyKeys : \A i \in 1..Len(admitted[k]) :
               AdmittedInMinute(k, MinuteOf(admitted[k][i]))
                  <= rate_limit.requests_per_minute)
    /\ [][\A k \in StrategyKeys :
            (/\ strategy = FIXED_WINDOW
             /\ CheckStep(k)
             /\ windows[k].present
             /\ windows[k].window_start # MinuteOf(now) * MinuteWindow)
            => /\ result'.ret.allowed
               /\ windows'[k].count = 1
               /\ windows'[k].window_start = MinuteOf(now) * MinuteWindow
         ]_vars

\* twice requests_per_minute admits, the limit being 2, in less than 60
\* seconds: the first half at the end of a minute, the second half in the
\* next minute, whose first call found the full count and reset it
C26_Witness ==
    \E k \in StrategyKeys :
        /\ strategy = FIXED_WINDOW
        /\ rate_limit.requests_per_minute = 2
        /\ Len(admitted[k]) = 2 * rate_limit.requests_per_minute
        /\ admitted[k][Len(admitted[k])] - admitted[k][1] < Ticks(MinuteWindow)
        /\ MinuteOf(admitted[k][1]) # MinuteOf(admitted[k][Len(admitted[k])])
        /\ windows[k].count = rate_limit.requests_per_minute

\* the tokens of the bucket of key k when a call finds it at instant t,
\* after the refill of (t - last_refill) x limit / 60, capped at the limit;
\* a key without bucket gets one with limit tokens
Refilled(k, t) ==
    LET cap == rate_limit.requests_per_minute * Scale
        b == memory_buckets[k]
    IN IF ~b.present THEN cap
       ELSE IF b.tokens + (t - b.last_refill) * rate_limit.requests_per_minute >= cap
       THEN cap
       ELSE b.tokens + (t - b.last_refill) * rate_limit.requests_per_minute

\* C27: under the token bucket, a bucket holds between 0 and limit tokens in
\* every state; a call on a key without bucket finds limit tokens; a call is
\* admitted exactly when at least 1 token is there after the refill; an
\* admit leaves the refilled amount less exactly 1 token, a denial leaves the
\* refilled amount.
C27_TokenBucket ==
    /\ [](strategy = TOKEN_BUCKET =>
            \A k \in StrategyKeys :
               memory_buckets[k].present =>
                  /\ 0 <= memory_buckets[k].tokens
                  /\ memory_buckets[k].tokens
                        <= rate_limit.requests_per_minute * Scale)
    /\ [][\A k \in StrategyKeys :
            (strategy = TOKEN_BUCKET /\ CheckStep(k)) =>
               /\ result'.ret.allowed <=> Refilled(k, now) >= Scale
               /\ memory_buckets'[k].tokens =
                     IF result'.ret.allowed THEN Refilled(k, now) - Scale
                                            ELSE Refilled(k, now)
               /\ memory_buckets'[k].last_refill = now
         ]_vars

\* a call was denied after a partial refill: less than 1 token is in the
\* bucket, and more than 0
C27_Witness ==
    \E k \in StrategyKeys :
        /\ strategy = TOKEN_BUCKET
        /\ result.op = "check_rate_limit"
        /\ ~result.ret.allowed
        /\ memory_buckets[k].tokens > 0
        /\ memory_buckets[k].tokens < Scale
        /\ result.ret.retry_after > 0

\* C28: under the leaky bucket, the level of a bucket stays between 0 and
\* the capacity requests_per_minute in every state, whatever time passes
\* between the calls.
C28_LeakyBucketWithinCapacity ==
    strategy = LEAKY_BUCKET =>
       \A k \in StrategyKeys :
          buckets[k].present =>
             /\ 0 <= buckets[k].level
             /\ buckets[k].level <= rate_limit.requests_per_minute * Scale

-----------------------------------------------------------------------------
(* Properties of smart routing *)

\* a step in which select_provider returns provider p to call t
SelectStep(t, p) ==
    /\ route[t].pc = "loop"
    /\ route'[t].pc = "dispatch"
    /\ route'[t].provider_name = p

\* a step in which update_provider_stats(p, ..) is called: the balancer
\* counts one more request of p
UpdateStep(p) ==
    provider_stats'[p].total_requests = provider_stats[p].total_requests + 1

\* C30: a select_provider call that returns provider p increments the
\* in-flight load of p by exactly 1 and changes no other load; every
\* update_provider_stats(p, ..) decrements the load of p by exactly 1 and
\* leaves it at 0 or more; nothing else changes a load.
C30_InFlightLoad ==
    [][\A p \in ProviderSet :
          /\ (\E t \in RouteTasks : SelectStep(t, p))
                => /\ current_loads'[p] = current_loads[p] + 1
                   /\ \A q \in ProviderSet \ {p} :
                         current_loads'[q] = current_loads[q]
          /\ UpdateStep(p)
                => /\ current_loads'[p] = current_loads[p] - 1
                   /\ current_loads'[p] >= 0
          /\ current_loads'[p] # current_loads[p]
                => (UpdateStep(p) \/ \E t \in RouteTasks : SelectStep(t, p))
      ]_vars

\* two calls have selected the provider and are in flight together; and a
\* state in which the balancer has counted two requests of the provider
\* while a call is in flight
C30_Witness ==
    \E p \in ProviderSet :
        /\ current_loads[p] >= 1
        /\ provider_stats[p].total_requests >= 2
        /\ \E t \in RouteTasks : route[t].pc = "posting"

-----------------------------------------------------------------------------
(* Part 5: SmartLoadBalancer.select_provider, its scores and its draw.       *)
(* A score is kept in units of 1/40: the six factor weights are whole        *)
(* twentieths, and a factor is kept in halves, which is exact for the        *)
(* statistics, loads and times that occur here.                              *)

MaxSmartCalls == 2

\* provider_manager.clients, in the order get_available_providers walks it
Clients == <<"p1", "p2", "p3", "p4">>
ClientSet == {Clients[i] : i \in 1..Len(Clients)}

\* a factor score of 1.0 on the 0-1 scale of the factors
One == 2

\* what client.get_stats() answers for a client never called
FreshStats ==
    [total_requests |-> 0, successful_requests |-> 0, failed_requests |-> 0,
     average_latency |-> 0]

\* what client.get_stats() answers: a client never called, one that answered
\* a hundred calls in five seconds on average, one that failed half of fifty
\* calls and took ten seconds on average
StatsProfiles ==
    { FreshStats,
      [total_requests |-> 100, successful_requests |-> 100,
       failed_requests |-> 0, average_latency |-> 5],
      [total_requests |-> 50, successful_requests |-> 25,
       failed_requests |-> 25, average_latency |-> 10] }

\* get_stats()["success_rate"]
success_rate(stats) ==
    IF stats.total_requests > 0
    THEN (One * stats.successful_requests) \div stats.total_requests
    ELSE 0

\* max(self.current_loads.values()) if self.current_loads else 1
RECURSIVE max_load(_, _)
max_load(loads, ps) ==
    IF ps = {} THEN 0
    ELSE LET p == CHOOSE q \in ps : TRUE
         IN Larger(loads[p], max_load(loads, ps \ {p}))

\* the model of a request: None, a model the clients serve, one they do not
RequestModels == {"None", "m1", "m9"}

\* SmartLoadBalancer._calculate_provider_score of a provider that has a client
_calculate_provider_score(provider, current_time, model) ==
    LET stats == client_stats[provider]
        success_score == success_rate(stats)
        latency_score == Larger(0, One - (One * stats.average_latency) \div 10)
        current_load == current_loads[provider]
        load_score == One - (One * current_load)
                              \div Larger(max_load(current_loads, ClientSet), 1)
        time_since_last == current_time - last_selection_time[provider]
        recency_score == Smaller(One, (One * time_since_last)
                                         \div Ticks(MinuteWindow))
        experience_score == Smaller(One, (One * stats.total_requests) \div 100)
        model_score == IF model # "None" /\ ~InList(Models, model)
                       THEN One \div 2 ELSE One
    IN 6 * success_score + 5 * latency_score + 4 * load_score
       + 2 * recency_score + 2 * experience_score + 1 * model_score

\* list.sort(key=score, reverse=True): a stable sort, so that of two equal
\* scores the one earlier in the list stays earlier
RECURSIVE sort_by_score(_)
sort_by_score(provider_scores) ==
    IF provider_scores = <<>> THEN <<>>
    ELSE LET n == Len(provider_scores)
             last == provider_scores[n]
             sorted == sort_by_score(SubSeq(provider_scores, 1, n - 1))
             before == SelectSeq(sorted, LAMBDA e : e.score >= last.score)
             after == SelectSeq(sorted, LAMBDA e : e.score < last.score)
         IN before \o <<last>> \o after

\* provider_scores[:min(3, len(provider_scores))], a mutation: no cut
top_providers_all(sorted) == sorted

\* provider_scores[:min(3, len(provider_scores))]
top_providers(sorted) == SubSeq(sorted, 1, Smaller(3, Len(sorted)))

\* sum(weights) of the first n entries
RECURSIVE sum_weights(_, _)
sum_weights(top, n) ==
    IF n = 0 THEN 0 ELSE sum_weights(top, n - 1) + top[n].score

\* the loop of the weighted draw: the first entry at which the running sum
\* reaches rand_val; top[1] when the loop ends without one
weighted_choice(top, rand_val) ==
    IF \E i \in 1..Len(top) : rand_val <= sum_weights(top, i)
    THEN top[CHOOSE i \in 1..Len(top) :
                 /\ rand_val <= sum_weights(top, i)
                 /\ \A j \in 1..(i - 1) : rand_val > sum_weights(top, j)].provider
    ELSE top[1].provider

\* the number of calls selected and not completed
RECURSIVE in_flight(_, _)
in_flight(loads, ps) ==
    IF ps = {} THEN 0
    ELSE LET p == CHOOSE q \in ps : TRUE
         IN loads[p] + in_flight(loads, ps \ {p})

\* the number of calls completed
RECURSIVE completed(_, _)
completed(stats, ps) ==
    IF ps = {} THEN 0
    ELSE LET p == CHOOSE q \in ps : TRUE
         IN stats[p].total_requests + completed(stats, ps \ {p})

\* ProviderManager.get_available_providers: the clients whose
\* check_availability allows, in the order of the clients; the limits are
\* beyond the calls made here, so that a client is refused only for lack of an
\* API key
smart_available == SelectSeq(Clients, LAMBDA p : api_key[p] # "")

\* SmartLoadBalancer.select_provider(request)
SmartSelectProvider ==
    /\ in_flight(current_loads, ClientSet)
          + completed(provider_stats, ClientSet) < MaxSmartCalls
    /\ \E available \in {smart_available}, model \in RequestModels :
       IF available = <<>>
       THEN /\ result' = [op |-> "select_provider", available |-> available,
                          provider_scores |-> <<>>, value |-> NoProvider]
            /\ UNCHANGED <<current_loads, last_selection_time>>
       ELSE \E ps \in {[i \in 1..Len(available) |->
                          [provider |-> available[i],
                           score |-> _calculate_provider_score(
                                         available[i], now, model)]]} :
            \E top \in {top_providers(sort_by_score(ps))} :
            \E total_weight \in {sum_weights(top, Len(top))} :
            IF total_weight = 0
            THEN /\ result' = [op |-> "select_provider",
                               available |-> available, provider_scores |-> ps,
                               value |-> sort_by_score(ps)[1].provider]
                 /\ UNCHANGED <<current_loads, last_selection_time>>
            ELSE \E provider \in { weighted_choice(top, rand_val) :
                                      rand_val \in 0..total_weight } :
                 /\ result' = [op |-> "select_provider",
                               available |-> available, provider_scores |-> ps,
                               value |-> provider]
                 /\ current_loads' = [current_loads EXCEPT ![provider] = @ + 1]
                 /\ last_selection_time' =
                       [last_selection_time EXCEPT ![provider] = now]
    /\ UNCHANGED <<now, advances, rate_limit, api_key, limiterVars, admitted,
                   taskVars, strategyVars, wrrVars, tenacity, client_stats,
                   provider_stats, failed_providers, route, running,
                   last_failure>>

\* SmartLoadBalancer.update_provider_stats(provider, success, latency) when a
\* call to the provider completes
SmartUpdateProviderStats(provider, success) ==
    /\ current_loads[provider] > 0
    /\ current_loads' = [current_loads EXCEPT ![provider] = Unloaded(@)]
    /\ provider_stats' = [provider_stats EXCEPT ![provider] = Counted(@, success)]
    /\ result' = [op |-> "update_provider_stats", available |-> <<>>,
                  provider_scores |-> <<>>, value |-> provider]
    /\ UNCHANGED <<now, advances, rate_limit, api_key, limiterVars, admitted,
                   taskVars, strategyVars, wrrVars, tenacity, client_stats,
                   failed_providers, route, running, last_failure,
                   last_selection_time>>

\* the first n clients have their API key
SmartApiKeys ==
    { [p \in ClientSet |->
         IF \E i \in 1..n : Clients[i] = p THEN "sk" ELSE ""] :
      n \in 0..Len(Clients) }

\* the clients with the statistics of earlier calls, a client without its API
\* key and the last client never called, and the balancer new
InitSmart ==
    /\ now = Ticks(31 * SecondsPerDay) - 1
    /\ advances = 0
    /\ rate_limit = WeightedLimit
    /\ api_key \in SmartApiKeys
    /\ InitUsage
    /\ tenacity = FALSE
    /\ client_stats \in { f \in [ClientSet -> StatsProfiles] :
                            \A p \in ClientSet :
                               (api_key[p] = "" \/ p = Clients[Len(Clients)])
                                  => f[p] = FreshStats }
    /\ provider_stats = [p \in ClientSet |-> NoStats]
    /\ current_loads = [p \in ClientSet |-> 0]
    /\ last_selection_time = [p \in ClientSet |-> 0]
    /\ failed_providers = [p \in ProviderSet |-> None]
    /\ route = [t \in RouteTasks |-> IdleRoute]
    /\ running = NoTask
    /\ last_failure = [p \in ProviderSet |-> None]
    /\ InitBalancers
    /\ profile = [p \in ProviderSet |-> "fast"]

NextSmart ==
    \/ advances = 0 /\ Tick(Ticks(MinuteWindow \div 2))
    \/ SmartSelectProvider
    \/ \E p \in ClientSet, success \in BOOLEAN :
          SmartUpdateProviderStats(p, success)

SpecSmart == InitSmart /\ [][NextSmart]_vars

-----------------------------------------------------------------------------
(* Properties of the smart draw *)

\* the score select_provider gave the provider in its last call
ScoreOf(p) ==
    LET i == CHOOSE j \in 1..Len(result.provider_scores) :
                 result.provider_scores[j].provider = p
    IN result.provider_scores[i].score
\* what the last call returns for every draw above 0
Drawn ==
    LET top == top_providers(sort_by_score(result.provider_scores))
    IN [rand_val \in 1..sum_weights(top, Len(top)) |->
          weighted_choice(top, rand_val)]
\* the draws of the last call that return the provider
DrawsOf(drawn, p) == { rand_val \in DOMAIN drawn : drawn[rand_val] = p }

\* C29: the provider select_provider returns is one of the available
\* providers, fewer than 3 available providers score higher than it, and each
\* of the (at most 3) candidates of the draw is returned by as many of the
\* draws as its score, so by some draw when its score is positive; with no
\* provider available none is returned.
C29_SmartReturnsCandidate ==
    result.op = "select_provider" =>
       IF result.available = <<>>
       THEN result.value = NoProvider
       ELSE /\ InList(result.available, result.value)
            /\ Cardinality({ i \in 1..Len(result.available) :
                  ScoreOf(result.available[i]) > ScoreOf(result.value) }) < 3
            /\ LET top == top_providers(sort_by_score(result.provider_scores))
                   drawn == Drawn
               IN /\ Len(top) = Smaller(3, Len(result.available))
                  /\ \A i \in 1..Len(top) :
                        /\ InList(result.available, top[i].provider)
                        /\ Cardinality(DrawsOf(drawn, top[i].provider))
                              = top[i].score

\* four providers available with four different scores, the provider with
\* the third highest returned
C29_Witness ==
    /\ result.op = "select_provider"
    /\ Len(result.available) = 4
    /\ \A i, j \in 1..4 :
          i # j => result.provider_scores[i].score
                      # result.provider_scores[j].score
    /\ Cardinality({ i \in 1..4 :
          ScoreOf(result.available[i]) > ScoreOf(result.value) }) = 2

-----------------------------------------------------------------------------
(* Properties of the token dimensions *)

\* the names of the checks the last admit failed
FailedOf(ret) == IF ret.allowed THEN <<>> ELSE ret.failed_checks

\* the token dimensions of the key: the name of the check, the configured
\* limit and the tokens the key holds in the dimension's window
TokenDimensions(k) ==
    { [name |-> "tokens_per_minute", limit |-> rate_limit.tokens_per_minute,
       tokens |-> SumTokens(token_windows[k].minute)],
      [name |-> "tokens_per_hour", limit |-> rate_limit.tokens_per_hour,
       tokens |-> SumTokens(token_windows[k].hour)],
      [name |-> "tokens_per_day", limit |-> rate_limit.tokens_per_day,
       tokens |-> daily_counters[k].tokens],
      [name |-> "tokens_per_month", limit |-> rate_limit.tokens_per_month,
       tokens |-> monthly_counters[k].tokens] }

\* C36: an admit that finds the tokens of a configured token dimension summing
\* to at least the limit of the dimension is denied on that dimension (an
\* admit records no tokens, so the sums it leaves are the sums it found).
C36_TokenLimitBlocks ==
    result.op = "is_allowed" =>
       \A d \in TokenDimensions(result.key) :
          (Configured(d.limit) /\ d.tokens >= d.limit)
             => InList(FailedOf(result.ret), d.name)

-----------------------------------------------------------------------------
(* Properties of retry_after *)

\* the last call on the key was an admit denied on requests_per_minute alone
DeniedOnMinuteOnly(k) ==
    /\ result.op = "is_allowed"
    /\ result.key = k
    /\ ~result.ret.allowed
    /\ result.ret.failed_checks = <<"requests_per_minute">>

\* C38: an admit issued retry_after seconds after an admit on the key that was
\* denied on requests_per_minute alone, no other call on the key in between,
\* is allowed.
C38_RetryAfterSufficient ==
    [][\A k \in Keys :
          (/\ DeniedOnMinuteOnly(k)
           /\ now = result.t + Ticks(result.ret.retry_after)
           /\ AdmitStep(k))
             => result'.ret.allowed
      ]_vars

-----------------------------------------------------------------------------
(* Properties of the calendar accumulators *)

\* the tokens of the entries of the queue that were recorded in calendar
\* period `index`, `IndexOf` giving the period of a time
TokensIn(window, IndexOf(_), index) ==
    SumTokens(SelectSeq(window, LAMBDA e : IndexOf(e.timestamp) = index))

\* the last call on the key was a record_token_usage, and the calendar marker
\* of the key dates from an earlier period than the recording: no admit or
\* status ran on the key between the boundary and the recording
RecordedAfterBoundary(k, marker, IndexOf(_)) ==
    /\ result.op = "record_token_usage"
    /\ result.key = k
    /\ marker # 0
    /\ marker # IndexOf(result.t)
    /\ IndexOf(now) = IndexOf(result.t)

\* C37: when record_token_usage was the first call on the key after a day
\* (month) boundary, the next admit or status on the key in the new day
\* (month) leaves a day (month) token accumulator that holds the tokens
\* recorded in the new day (month), and only those.
C37_TokensCountedInNewPeriod ==
    [][\A k \in Keys :
          (AdmitStep(k) \/ StatusStep(k)) =>
             /\ RecordedAfterBoundary(k, last_reset[k].daily, DayIndex) =>
                   daily_counters'[k].tokens =
                      TokensIn(token_windows[k].hour, DayIndex, DayIndex(now))
             /\ RecordedAfterBoundary(k, last_reset[k].monthly, MonthIndex) =>
                   monthly_counters'[k].tokens =
                      TokensIn(token_windows[k].hour, MonthIndex, MonthIndex(now))
      ]_vars

-----------------------------------------------------------------------------
(* Properties of the adapters' statistics *)

\* the generate attempts on provider p that call t has completed: each ends
\* with a completion, a failed answer, a local denial or a missing key
CompletedAttempts(t, p) ==
    IF route[t].pc = "idle" THEN {}
    ELSE {j \in 1..Len(route[t].log) :
            /\ route[t].log[j].provider = p
            /\ route[t].log[j].kind \in AttemptEnds \cup {"success"}}

\* C34: the statistics of a provider count every completed generate attempt
\* once: total_requests = successful_requests + failed_requests = the number
\* of completed attempts, whatever their outcomes.
C34_AttemptsCountedOnce ==
    \A p \in ProviderSet :
       /\ client_stats[p].total_requests
             = client_stats[p].successful_requests
               + client_stats[p].failed_requests
       /\ \E n \in {Cardinality(UNION {{<<t, j>> : j \in CompletedAttempts(t, p)} :
                                         t \in RouteTasks})} :
             client_stats[p].total_requests = n

-----------------------------------------------------------------------------
(* Properties of the in-flight load, continued *)

\* no route_request is in progress: every call has not begun or has ended
Quiescent == \A t \in RouteTasks : route[t].pc \in {"idle", "done"}

\* C35: whenever no route_request is in progress the in-flight load of every
\* provider is 0, whatever the finished calls went through.
C35_LoadsReturnToZero ==
    Quiescent => \A p \in ProviderSet : current_loads[p] = 0

-----------------------------------------------------------------------------
(* Termination of route_request *)

\* C39: a route_request makes at most 3 selections (loop iterations); once it
\* has ended, with a response returned or a terminal error raised, it takes
\* no further step; and, every adapter call and every sleep returning, a call
\* that began ends.
C39_RouteRequestTerminates ==
    /\ [](\A t \in RouteTasks :
            route[t].pc # "idle" =>
               /\ LogCount(t, "select") <= 3
               /\ route[t].attempts = LogCount(t, "select")
               /\ route[t].pc = "done" =>
                     route[t].outcome.kind \in {"returned", "raised"})
    /\ [][\A t \in RouteTasks :
            route[t].pc = "done" => route'[t] = route[t]]_vars
    /\ \A t \in FirstCall : (route[t].pc # "idle") ~> (route[t].pc = "done")

\* the call ended with "All providers failed" after a failed dispatch, a skip
\* for the open circuit and an empty selection or another skip or failure
C39_Witness ==
    \E t \in RouteTasks :
        /\ route[t].pc = "done"
        /\ route[t].outcome.kind = "raised"
        /\ LogCount(t, "select") = 3
        /\ LogCount(t, "failure") >= 1
        /\ LogCount(t, "skip") >= 1

-----------------------------------------------------------------------------
(* Properties of the weighted round robin balancer, continued *)

\* the providers get_available_providers returns while no limit is reached
Keyed == {p \in ProviderSet : api_key[p] # ""}

\* a weight or a credit, 1.0 where the balancer has no entry yet
Started(x) == IF x = None THEN Unit ELSE x

\* w2 is the weight w times num / 10, cut to the millionth
Scaled(w, num, w2) == w2 * 10 <= w * num /\ w * num < (w2 + 1) * 10

\* the step is update_provider_stats(provider, success, latency)
WeightedUpdateStep(provider, success, latency) ==
    /\ result'.op = "update_provider_stats"
    /\ result'.ret.provider = provider
    /\ result'.ret.success = success
    /\ result'.ret.latency = latency
    /\ pending = provider /\ pending' = NoProvider

\* what update_provider_stats made of the weight w of its provider
WeightRule(w, success, latency, w2) ==
    /\ (success /\ latency < Ticks(1)) =>
          IF w * 11 >= 50 * Unit THEN w2 = 5 * Unit ELSE Scaled(w, 11, w2)
    /\ (success /\ latency > Ticks(5)) =>
          IF w * 9 <= Unit THEN w2 = Unit \div 10 ELSE Scaled(w, 9, w2)
    /\ (success /\ latency >= Ticks(1) /\ latency <= Ticks(5)) => w2 = w
    /\ ~success =>
          IF w * 8 <= Unit THEN w2 = Unit \div 10 ELSE Scaled(w, 8, w2)

\* the step is a select_provider that returned provider
WeightedSelectStep(provider) ==
    /\ result'.op = "select_provider"
    /\ result'.ret.provider = provider
    /\ pending = NoProvider /\ pending' = provider

\* C32: a weight starts at 1.0 and stays within [0.1, 5.0]; a success under
\* 1 s multiplies it by 1.1 (cap 5.0), a success over 5 s by 0.9 (floor 0.1),
\* a failure by 0.8 (floor 0.1), a success of 1 s to 5 s leaves it as it is,
\* no other weight changing; a selection returns an available provider of
\* the highest credit, takes 1 from its credit and adds to the credit of
\* each available provider its weight.
C32_WeightsAndCredits ==
    /\ [](\A p \in ProviderSet :
            weights[p] # None =>
               weights[p] >= Unit \div 10 /\ weights[p] <= 5 * Unit)
    /\ [][\A p \in ProviderSet :
            /\ (weights[p] = None /\ weights'[p] # None) => weights'[p] = Unit
            /\ \A success \in BOOLEAN, latency \in 0..Ticks(6) :
                  WeightedUpdateStep(p, success, latency) =>
                     /\ WeightRule(Started(weights[p]), success, latency,
                                   weights'[p])
                     /\ \A q \in ProviderSet \ {p} : weights'[q] = weights[q]
            /\ WeightedSelectStep(p) =>
                  /\ p \in Keyed
                  /\ \A q \in Keyed :
                        /\ Started(current_weights[q])
                              <= Started(current_weights[p])
                        /\ current_weights'[q] =
                              Started(current_weights[q])
                                 - (IF q = p THEN Unit ELSE 0)
                                 + Started(weights[q])
                        /\ weights'[q] = Started(weights[q])
                  /\ \A q \in ProviderSet \ Keyed :
                        /\ current_weights'[q] = current_weights[q]
                        /\ weights'[q] = weights[q]]_vars

\* a failure has just been fed for a provider whose weight is at the floor,
\* as is the weight of the other failing provider, while both are selected
\* in turn
C32_Witness ==
    /\ result.op = "update_provider_stats"
    /\ ~result.ret.success
    /\ \A q \in Keyed : weights[q] = Unit \div 10
    /\ \A q \in Keyed : passed_over[q] <= 2
    /\ selections[Providers[1]] + selections[Providers[2]] > 30

\* the most selections in a row that a weighted round robin sharing the
\* selections of two providers in proportion to weights within [0.1, 5.0]
\* passes one of them over: 5.0 / 0.1, and one for the rounding
LongestWait == (5 * Unit) \div (Unit \div 10) + 1

\* C40: no available provider is starved: each is selected again after a
\* bounded number of selections, whatever the weights within [0.1, 5.0].
C40_NoStarvation ==
    \A p \in Keyed : passed_over[p] <= LongestWait

-----------------------------------------------------------------------------
(* Part 6: the round robin balancer and the response-time balancer          *)
(* (app/services/load_balancer.py, RoundRobinBalancer and                   *)
(* ResponseTimeBalancer).                                                   *)

\* available_providers[self.current_index % len(available_providers)], a
\* mutation: the first of the list whatever the index
round_robin_first(index, available) == available[1]

\* available_providers[self.current_index % len(available_providers)]
round_robin(index, available) == available[(index % Len(available)) + 1]

\* the selections in a row that passed each provider over, after a selection
\* that got the list available and returned provider
PassedOver(available, provider) ==
    [p \in ProviderSet |->
        IF p = provider THEN 0
        ELSE IF InList(available, p) THEN passed_over[p] + 1
        ELSE passed_over[p]]

\* the list the selection got, and how many selections in a row got it,
\* counted up to the number of providers
Listed(available) ==
    [available |-> available,
     times |-> IF last_available.available = available
               THEN Smaller(last_available.times + 1, Len(Providers)) ELSE 1]

\* RoundRobinBalancer.select_provider, the availability checks of
\* get_available_providers included
SelectRoundRobin ==
    /\ lock = NoTask
    /\ \E r \in {[p \in ProviderSet |->
                   check_availability(p, "default",
                                      UsageState(KeyOf(p, "default")), now)]} :
       /\ \A p \in ProviderSet :
             r[p].allowed => Len(admitted[KeyOf(p, "default")]) < MaxAdmits
       /\ StoreChecks(r)
       /\ \E available \in {SelectSeq(Providers, LAMBDA p : r[p].available)} :
          /\ last_available' = Listed(available)
          /\ IF available = <<>>
             THEN /\ result' = [op |-> "select_provider", t |-> now,
                                ret |-> [provider |-> NoProvider,
                                         available |-> available]]
                  /\ UNCHANGED <<current_index, selections, passed_over>>
             ELSE \E provider \in {round_robin(current_index, available)} :
                  /\ current_index' = current_index + 1
                  /\ selections' = [selections EXCEPT ![provider] = @ + 1]
                  /\ passed_over' = PassedOver(available, provider)
                  /\ result' = [op |-> "select_provider", t |-> now,
                                ret |-> [provider |-> provider,
                                         available |-> available]]
    /\ UNCHANGED <<routerVars, strategyVars, weights, current_weights, pending,
                   profile, response_times, now, advances, rate_limit, api_key,
                   taskVars>>

\* any of the providers may have its API key in the environment
BalancerApiKeys == [ProviderSet -> {"", "sk"}]

\* two requests a minute, or as many as the model admits
BalancerLimits ==
    { RateLimit(2, None, None, None, None, None, None, None),
      RateLimit(MaxLimit, None, None, None, None, None, None, None) }

InitRoundRobin ==
    /\ now \in StartTimes
    /\ advances = 0
    /\ rate_limit \in BalancerLimits
    /\ api_key \in BalancerApiKeys
    /\ InitUsage
    /\ tenacity = FALSE
    /\ InitRouting

\* the selections, the clock moving by a minute, and the availability check
\* that the client of a provider (the second here) makes on its own when it
\* is sent a request
NextRoundRobin ==
    \/ Tick(Ticks(MinuteWindow))
    \/ CheckAvailability(Providers[2])
    \/ SelectRoundRobin

SpecRoundRobin == InitRoundRobin /\ [][NextRoundRobin]_vars

\* self.max_history, a mutation: one latency more is kept
max_history_more == 10 + 1

\* ResponseTimeBalancer.__init__: self.max_history
max_history == 10

MaxTimed == 12

\* sum(times)
RECURSIVE sum(_)
sum(times) == IF times = <<>> THEN 0 ELSE Head(times) + sum(Tail(times))

\* avg_time = sum(times) / len(times) if times else 1.0, as a fraction of
\* ticks
avg_time(times) ==
    IF times = <<>> THEN [num |-> Ticks(1), den |-> 1]
    ELSE [num |-> sum(times), den |-> Len(times)]

\* a < b of two such fractions
Below(a, b) == a.num * b.den < b.num * a.den

\* provider_scores.sort(key=lambda x: x[1]); provider_scores[0][0]: the sort
\* is stable, so the first of the providers of the lowest average
fastest(times, available) ==
    available[CHOOSE i \in 1..Len(available) :
                 /\ \A j \in 1..Len(available) :
                       ~Below(avg_time(times[available[j]]),
                              avg_time(times[available[i]]))
                 /\ \A j \in 1..(i - 1) :
                       Below(avg_time(times[available[i]]),
                             avg_time(times[available[j]]))]

\* ResponseTimeBalancer.update_provider_stats on the history of its provider
record_latency(times, success, latency) ==
    IF success
    THEN IF Len(times) + 1 > max_history
         THEN Tail(Append(times, latency))
         ELSE Append(times, latency)
    ELSE times

\* ResponseTimeBalancer.select_provider, the availability checks of
\* get_available_providers included
SelectTimed ==
    /\ lock = NoTask
    /\ pending = NoProvider
    /\ selections[Providers[1]] + selections[Providers[2]] < MaxTimed
    /\ \E r \in {[p \in ProviderSet |->
                   check_availability(p, "default",
                                      UsageState(KeyOf(p, "default")), now)]} :
       /\ StoreChecks(r)
       /\ \E available \in {SelectSeq(Providers, LAMBDA p : r[p].available)} :
          IF available = <<>>
          THEN /\ result' = [op |-> "select_provider", t |-> now,
                             ret |-> [provider |-> NoProvider]]
               /\ UNCHANGED <<selections, passed_over, pending>>
          ELSE \E provider \in {fastest(response_times, available)} :
               /\ pending' = provider
               /\ selections' = [selections EXCEPT ![provider] = @ + 1]
               /\ passed_over' = PassedOver(available, provider)
               /\ result' = [op |-> "select_provider", t |-> now,
                             ret |-> [provider |-> provider]]
    /\ UNCHANGED <<routerVars, strategyVars, weights, current_weights, profile,
                   otherBalancers, now, advances, rate_limit, api_key, taskVars>>

\* how long a call takes, in ticks: half a second or a second for a
\* provider whose calls vary, and as for the weighted balancer otherwise
TimedLatencies(kind) ==
    IF kind = "varying" THEN {Ticks(1) - 1, Ticks(1)} ELSE Latencies(kind)

\* the call to the selected provider ends after its latency, in success
\* unless the provider is a failing one, and
\* update_provider_stats(provider, success, latency) is fed
CompleteTimed ==
    /\ pending # NoProvider
    /\ \E latency \in TimedLatencies(profile[pending]) :
       /\ now' = now + latency
       /\ response_times' = [response_times EXCEPT ![pending] =
             record_latency(@, profile[pending] # "failing", latency)]
       /\ result' = [op |-> "update_provider_stats", t |-> now + latency,
                     ret |-> [provider |-> pending, latency |-> latency,
                              success |-> profile[pending] # "failing"]]
    /\ pending' = NoProvider
    /\ UNCHANGED <<routerVars, strategyVars, profile, current_index,
                   last_available, weights, current_weights, selections,
                   passed_over, advances, rate_limit, api_key, limiterVars,
                   admitted, taskVars>>

\* the two providers that have keys: one whose calls vary next to a failing
\* one, in either order; a 5 s one before a varying one; a fast one before a
\* 5 s one; two 5 s ones
TimedProfiles ==
    { [p \in ProviderSet |-> IF p = Providers[1] THEN pair[1] ELSE pair[2]] :
         pair \in { <<"varying", "failing">>, <<"failing", "varying">>,
                    <<"five", "varying">>, <<"fast", "five">>,
                    <<"five", "five">> } }

InitTimed ==
    /\ now \in StartTimes /\ \A t0 \in StartTimes : now <= t0
    /\ advances = 0
    /\ rate_limit = WeightedLimit
    /\ api_key \in WeightedApiKeys
    /\ InitUsage
    /\ tenacity = FALSE
    /\ InitRouted
    /\ profile \in TimedProfiles

NextTimed == SelectTimed \/ CompleteTimed

SpecTimed == InitTimed /\ [][NextTimed]_vars

-----------------------------------------------------------------------------
(* Properties of the round robin balancer *)

\* how many selections have returned a provider
Returned == selections[Providers[1]] + selections[Providers[2]] + selections[Providers[3]]

\* the step is a select_provider of the round robin balancer
RoundRobinStep == result'.op = "select_provider" /\ now' = now

\* C31: the k-th selection that returns a provider (k = 0, 1, ..) returns
\* element k mod n of the list of n available providers it got, k being the
\* index, which nothing else changes; a selection that gets the empty list
\* returns none and leaves the index; and when the last n selections got the
\* same list of n providers, each of them was returned by one of the n.
C31_RoundRobin ==
    /\ [](current_index = Returned)
    /\ [](\E n \in {Len(last_available.available)} :
            (n > 0 /\ last_available.times >= n) =>
               \A i \in 1..n : passed_over[last_available.available[i]] < n)
    /\ [][/\ ~RoundRobinStep => current_index' = current_index
          /\ RoundRobinStep =>
                \E available \in {result'.ret.available} :
                   IF available = <<>>
                   THEN /\ result'.ret.provider = NoProvider
                        /\ current_index' = current_index
                   ELSE /\ result'.ret.provider =
                              available[(Returned % Len(available)) + 1]
                        /\ current_index' = current_index + 1]_vars

\* the second selection gets a shorter list than the first, the second
\* provider having used up its minute, and returns its element 1 mod 2
C31_Witness ==
    /\ result.op = "select_provider"
    /\ result.ret.available = <<Providers[1], Providers[3]>>
    /\ current_index = 2
    /\ result.ret.provider = Providers[3]
    /\ selections[Providers[1]] = 1
    /\ passed_over[Providers[2]] = 1

-----------------------------------------------------------------------------
(* Properties of the response-time balancer *)

\* the step is update_provider_stats(provider, success, latency)
TimedUpdateStep(provider, success, latency) ==
    /\ result'.op = "update_provider_stats"
    /\ result'.ret.provider = provider
    /\ result'.ret.success = success
    /\ result'.ret.latency = latency
    /\ pending = provider /\ pending' = NoProvider

\* the step is a select_provider that returned provider
TimedSelectStep(provider) ==
    /\ result'.op = "select_provider"
    /\ result'.ret.provider = provider
    /\ pending = NoProvider /\ pending' = provider

\* the history new is the history old with latency put last, its oldest
\* entry gone if it held 10 already
Shifted(old, latency, new) ==
    \E dropped \in {IF Len(old) >= 10 THEN Len(old) + 1 - 10 ELSE 0} :
       /\ Len(new) = Len(old) + 1 - dropped
       /\ new[Len(new)] = latency
       /\ \A i \in 1..(Len(new) - 1) : new[i] = old[i + dropped]

\* the mean of history a is at most that of history b, the empty history
\* counting as 1 s
MeanAtMost(a, b) ==
    \E sa \in {IF a = <<>> THEN Ticks(1) ELSE sum(a)},
       sb \in {IF b = <<>> THEN Ticks(1) ELSE sum(b)},
       na \in {IF a = <<>> THEN 1 ELSE Len(a)},
       nb \in {IF b = <<>> THEN 1 ELSE Len(b)} : sa * nb <= sb * na

\* C33: a history never holds more than 10 latencies; a successful call puts
\* its latency last, dropping the oldest if there were 10, a failed call and
\* every other step leave the histories as they are; and select_provider
\* returns an available provider whose mean is the lowest, an empty history
\* counting as 1.0 s.
C33_ResponseTimes ==
    /\ [](\A p \in ProviderSet : Len(response_times[p]) <= 10)
    /\ [][\A p \in ProviderSet :
            /\ \A latency \in 0..Ticks(6) :
                  /\ TimedUpdateStep(p, TRUE, latency) =>
                        Shifted(response_times[p], latency, response_times'[p])
                  /\ TimedUpdateStep(p, FALSE, latency) =>
                        response_times'[p] = response_times[p]
            /\ (result'.op # "update_provider_stats"
                   \/ result'.ret.provider # p) =>
                  response_times'[p] = response_times[p]
            /\ TimedSelectStep(p) =>
                  /\ p \in Keyed
                  /\ \A q \in Keyed :
                        MeanAtMost(response_times[p], response_times[q])]_vars

\* the twelfth success of a provider has been fed: its history holds the ten
\* latest latencies, of 1 s each; the first two, of half a second, are gone
C33_Witness ==
    \E p \in Keyed :
        /\ result.op = "update_provider_stats"
        /\ result.ret.provider = p /\ result.ret.success
        /\ selections[p] = 12
        /\ Len(response_times[p]) = 10
        /\ \A i \in 1..10 : response_times[p][i] = Ticks(1)
        /\ result.t = Ticks(2 * SecondsPerDay) - 1
                          + 2 * (Ticks(1) - 1) + 10 * Ticks(1)

====
